---- MODULE Spec2Model ----
(***************************************************************************)
(* Kustomize renderer: union filesystem (pkg/fs/union over the Afero       *)
(* adapter), render engine (Engine.Run) and render cache keys.             *)
(*                                                                         *)
(* Three specifications share this module:                                 *)
(*   SpecFs    - a base filesystem, union.NewFs, operations on the union   *)
(*   Spec      - concurrent Engine.Run calls on one Engine                 *)
(*   SpecCache - Process calls over the render cache                       *)
(***************************************************************************)
EXTENDS Naturals, Sequences, FiniteSets, TLC

VARIABLES
    \* ---- union filesystem (SpecFs)
    base,       \* content of the base filesystem: path -> entry
    layer,      \* content of the overlay filesystem: path -> entry
    base0,      \* content of the base when union.NewFs returned
    phase,      \* "setup" | "composed"
    lastOp,     \* last call made through the union: [op, path, data, err]
    baseKind,   \* the kind of the base filesystem value
    newfs,      \* the union.NewFs call that returned, until the union is used
    cabs,       \* the Adapter.CleanedAbs call made on the base, and its result
    bpfs,       \* the NewBasePathFs call made on the base, and the last call through it
    \* ---- render engine (Spec)
    efs,        \* content of the Engine's filesystem (Engine.fs)
    efs0,       \* its content when the Engine was constructed
    eopts,      \* Engine.opts: [SourceAnnotations, WarningHandler, FileSystem (its kind)]
    osStderr,   \* the process-wide os.Stderr: 0 is the original stream, n > 0 a pipe
    closed,     \* the pipes that have been closed
    pipes,      \* number of pipes created so far
    run,        \* one record per concurrent Engine.Run call
    started,    \* number of Engine.Run calls begun
    \* ---- render cache (SpecCache)
    cstore,     \* the cache's entries: [key, value, expiresAt]
    clock,      \* the time
    calls,      \* the Process calls made, in order
    builderCalls, \* number of builder invocations
    heap,       \* the document lists allocated: reference -> documents
    keyFn,      \* the key function the cache was configured with
    \* ---- nested SuppressStderr calls of one goroutine (SpecNest)
    stack,      \* the SuppressStderr calls in progress: [old, w]
    supLast,    \* the SuppressStderr call that ended last
    unwinding   \* a panic is propagating

fsVars == <<base, layer, base0, phase, lastOp, baseKind, newfs, cabs, bpfs>>
engVars == <<efs, efs0, eopts, osStderr, closed, pipes, run, started>>

vars == <<base, layer, base0, phase, lastOp, baseKind, newfs, cabs, bpfs,
          efs, efs0, eopts, osStderr, closed, pipes, run, started,
          cstore, clock, calls, builderCalls, heap, keyFn,
          stack, supLast, unwinding>>
nestVars == <<stack, supLast, unwinding>>
cacheVars == <<cstore, clock, calls, builderCalls, heap, keyFn>>

(***************************************************************************)
(* Paths, entries, errors                                                  *)
(***************************************************************************)
Root == "/"
AppDir == "/app"
KustFile == "/app/kustomization.yaml"
ValuesFile == "/app/values.yaml"

DirPaths == {AppDir}
FilePaths == {KustFile, ValuesFile}
Paths == DirPaths \cup FilePaths

\* filepath.Dir on the path universe
Dir(p) == IF p \in FilePaths THEN AppDir ELSE Root

\* q is p or lies below p
Under(q, p) == q = p \/ Dir(q) = p

NoEnt == "<none>"
DirEnt == "<dir>"
EmptyContent == ""
FsContents == {"x", "y"}

IsFileEnt(e) == e # NoEnt /\ e # DirEnt

OK == "nil"
ErrNotExist == "file does not exist"
ErrFileExists == "file already exists"
ErrIsDir == "is a directory"

EmptyFs == [p \in Paths |-> NoEnt]

(***************************************************************************)
(* Adapter over an in-memory afero.Fs (fs.NewMemoryFs)                     *)
(***************************************************************************)
\* Adapter.Exists: Stat succeeds
MemExists(fs, p) == p = Root \/ (p \in Paths /\ fs[p] # NoEnt)

\* Adapter.IsDir
MemIsDir(fs, p) == p = Root \/ (p \in Paths /\ fs[p] = DirEnt)

\* Adapter.MkdirAll: nil when the path exists; parents are created
MemMkdirAll(fs, p) ==
    IF MemExists(fs, p) THEN fs
    ELSE [q \in Paths |->
            IF q = p \/ (q = Dir(p) /\ fs[q] = NoEnt) THEN DirEnt ELSE fs[q]]

\* Adapter.WriteFile: create or truncate, parents are created
MemWriteFile(fs, p, c) ==
    [q \in Paths |->
        IF q = p THEN c
        ELSE IF q = Dir(p) /\ fs[q] = NoEnt THEN DirEnt ELSE fs[q]]

\* Adapter.RemoveAll: the path and everything below it; always nil
MemRemoveAll(fs, p) == [q \in Paths |-> IF Under(q, p) THEN NoEnt ELSE fs[q]]

\* Adapter.ReadFile
MemReadFile(fs, p) ==
    IF ~MemExists(fs, p) THEN [err |-> ErrNotExist, data |-> EmptyContent]
    ELSE IF MemIsDir(fs, p) THEN [err |-> ErrIsDir, data |-> EmptyContent]
    ELSE [err |-> OK, data |-> fs[p]]

(***************************************************************************)
(* Union filesystem: Adapter over afero.NewCopyOnWriteFs(base, overlay)    *)
(***************************************************************************)
\* the path is served by the base: absent from the overlay, present in base
isBaseFile(b, l, p) == ~MemExists(l, p) /\ MemExists(b, p)

\* a union that never falls back to the base
UnionEntryOverlayOnly(b, l, p) == IF ~MemExists(l, p) THEN NoEnt ELSE l[p]

\* a union that consults the base before the overlay
UnionEntryBaseFirst(b, l, p) ==
    IF MemExists(b, p) THEN b[p]
    ELSE IF ~MemExists(l, p) THEN NoEnt
    ELSE l[p]

\* the entry a read of p through the union sees (overlay first)
UnionEntry(b, l, p) ==
    IF isBaseFile(b, l, p) THEN b[p]
    ELSE IF ~MemExists(l, p) THEN NoEnt
    ELSE l[p]

\* Adapter.Exists through the union
UnionExists(b, l, p) == MemExists(l, p) \/ MemExists(b, p)

\* Adapter.IsDir through the union
UnionIsDir(b, l, p) == IF MemExists(l, p) THEN MemIsDir(l, p) ELSE MemIsDir(b, p)

\* Adapter.Open / Adapter.ReadFile through the union
UnionReadFile(b, l, p) ==
    LET e == UnionEntry(b, l, p) IN
    IF e = NoEnt THEN [err |-> ErrNotExist, data |-> EmptyContent]
    ELSE IF e = DirEnt THEN [err |-> ErrIsDir, data |-> EmptyContent]
    ELSE [err |-> OK, data |-> e]

\* a union that writes a file of the base in place instead of copying it up
UnionPutWriteThrough(b, l, p, c) ==
    IF isBaseFile(b, l, p)
    THEN [base |-> MemWriteFile(b, p, c), layer |-> l, err |-> OK]
    ELSE IF MemIsDir(b, Dir(p))
    THEN [base |-> b, layer |-> MemWriteFile(MemMkdirAll(l, Dir(p)), p, c), err |-> OK]
    ELSE IF MemIsDir(l, Dir(p))
    THEN [base |-> b, layer |-> MemWriteFile(l, p, c), err |-> OK]
    ELSE [base |-> b, layer |-> l, err |-> ErrNotExist]

\* CopyOnWriteFs.OpenFile with O_CREATE|O_TRUNC and a write flag, then a
\* write of c: a base file is copied up first; otherwise the parent must be
\* a directory of the base (created in the overlay) or of the overlay
UnionPut(b, l, p, c) ==
    IF isBaseFile(b, l, p)
    THEN [base |-> b, layer |-> MemWriteFile(MemMkdirAll(l, Dir(p)), p, c), err |-> OK]
    ELSE IF MemIsDir(b, Dir(p))
    THEN [base |-> b, layer |-> MemWriteFile(MemMkdirAll(l, Dir(p)), p, c), err |-> OK]
    ELSE IF MemIsDir(l, Dir(p))
    THEN [base |-> b, layer |-> MemWriteFile(l, p, c), err |-> OK]
    ELSE [base |-> b, layer |-> l, err |-> ErrNotExist]

\* Adapter.WriteFile through the union
UnionWriteFile(b, l, p, c) == UnionPut(b, l, p, c)

\* Adapter.Create through the union: the file is left empty
UnionCreate(b, l, p) == UnionPut(b, l, p, EmptyContent)

\* Adapter.Mkdir through the union
UnionMkdir(b, l, p) ==
    IF MemExists(b, p) /\ MemIsDir(b, p)
    THEN [base |-> b, layer |-> l, err |-> ErrFileExists]
    ELSE [base |-> b, layer |-> MemMkdirAll(l, p), err |-> OK]

\* Adapter.MkdirAll through the union
UnionMkdirAll(b, l, p) ==
    IF MemExists(b, p) /\ MemIsDir(b, p)
    THEN [base |-> b, layer |-> l, err |-> OK]
    ELSE [base |-> b, layer |-> MemMkdirAll(l, p), err |-> OK]

\* Adapter.RemoveAll through the union: only the overlay is touched
UnionRemoveAll(b, l, p) == [base |-> b, layer |-> MemRemoveAll(l, p), err |-> OK]

(***************************************************************************)
(* union.NewFs                                                             *)
(***************************************************************************)
MaxOverrides == 2

\* the kinds of filesys.FileSystem values: an Adapter of this repository,
\* an implementation from elsewhere, and the read-only variants
FsKinds == {"adapter", "foreign"}

\* fs.NewFsOnDisk: an Adapter of this repository over afero.OsFs
OnDisk == "osfs"
ReadOnlyKinds == {"roAfero", "roWrapper", "iofs"}

\* the value provides Unwrap() afero.Fs
HasUnwrap(kind) == kind \in {"adapter", "osfs", "roAfero", "iofs"}

\* WithOverride(path, content)
Override == [path : FilePaths, content : FsContents]

\* WithOverlayFs(overlay): the overlay's content and its kind
OverlayContents == {EmptyFs, [p \in Paths |-> IF p = AppDir THEN DirEnt
                                              ELSE IF p = ValuesFile THEN "y" ELSE NoEnt]}
OverlayOpt == [overlay : OverlayContents, okind : FsKinds]
IsOverlayOpt(o) == "overlay" \in DOMAIN o

OverrideLists == UNION {[1..n -> Override \cup OverlayOpt] : n \in 0..MaxOverrides}

NoOverrides == [q \in FilePaths |-> NoEnt]
NoOverlay == [overlay |-> EmptyFs, okind |-> "nil"]
NoConfig == [overrides |-> NoOverrides, overlay |-> NoOverlay]

\* the options applied in order: cfg.overrides[path] = content, cfg.overlay = overlay
RECURSIVE ApplyOptions(_, _)
ApplyOptions(opts, cfg) ==
    IF opts = <<>> THEN cfg
    ELSE LET o == Head(opts) IN
         ApplyOptions(Tail(opts),
            IF IsOverlayOpt(o) THEN [cfg EXCEPT !.overlay = o]
            ELSE [cfg EXCEPT !.overrides =
                    [q \in FilePaths |-> IF q = o.path THEN o.content ELSE cfg.overrides[q]]])

\* the fresh in-memory overlay with every override written to it
RECURSIVE WriteOverrides(_, _, _)
WriteOverrides(fs, cfg, todo) ==
    IF todo = {} THEN fs
    ELSE LET q == CHOOSE x \in todo : TRUE IN
         WriteOverrides(MemWriteFile(fs, q, cfg[q]), cfg, todo \ {q})

NewFsOverlay(opts) ==
    LET cfg == ApplyOptions(opts, NoConfig).overrides IN
    WriteOverrides(EmptyFs, cfg, {q \in FilePaths : cfg[q] # NoEnt})

NoFault == "<no fault>"
Faults == {NoFault} \cup FilePaths
NewFsResult(err, path, b, l) == [err |-> err, path |-> path, base |-> b, layer |-> l]

\* a NewFs that writes the overrides into the overlay it was given
NewFsWritesIntoGiven(bkind, b, opts, fault) ==
    LET cfg == ApplyOptions(opts, NoConfig)
        todo == {q \in FilePaths : cfg.overrides[q] # NoEnt}
    IN IF fault \in todo
       THEN NewFsResult("failed to write override", fault, b, EmptyFs)
       ELSE IF ~HasUnwrap(bkind)
       THEN NewFsResult("base filesystem must be created with fs package functions",
                        NoFault, b, EmptyFs)
       ELSE IF cfg.overlay.okind # "nil" /\ ~HasUnwrap(cfg.overlay.okind)
       THEN NewFsResult("overlay filesystem must be created with fs package functions",
                        NoFault, b, EmptyFs)
       ELSE NewFsResult(OK, NoFault, b,
                        WriteOverrides(cfg.overlay.overlay, cfg.overrides, todo))

\* a NewFs that composes without asking either layer for its store
NewFsNoUnwrapCheck(bkind, b, opts, fault) ==
    LET cfg == ApplyOptions(opts, NoConfig)
        fresh == cfg.overlay.okind = "nil"
        todo == {q \in FilePaths : cfg.overrides[q] # NoEnt}
    IN IF fresh /\ fault \in todo
       THEN NewFsResult("failed to write override", fault, b, EmptyFs)
       ELSE NewFsResult(OK, NoFault, b,
                        IF fresh THEN NewFsOverlay(opts) ELSE cfg.overlay.overlay)

\* union.NewFs(base, opts...): bkind is the kind of the base, fault the path
\* (if any) whose write into the fresh overlay fails
NewFs(bkind, b, opts, fault) ==
    LET cfg == ApplyOptions(opts, NoConfig)
        fresh == cfg.overlay.okind = "nil"
        todo == {q \in FilePaths : cfg.overrides[q] # NoEnt}
    IN IF fresh /\ fault \in todo
       THEN NewFsResult("failed to write override", fault, b, EmptyFs)
       ELSE IF ~HasUnwrap(bkind)
       THEN NewFsResult("base filesystem must be created with fs package functions",
                        NoFault, b, EmptyFs)
       ELSE IF ~fresh /\ ~HasUnwrap(cfg.overlay.okind)
       THEN NewFsResult("overlay filesystem must be created with fs package functions",
                        NoFault, b, EmptyFs)
       ELSE NewFsResult(OK, NoFault, b,
                        IF fresh THEN NewFsOverlay(opts) ELSE cfg.overlay.overlay)

(***************************************************************************)
(* Descriptor, values manifest, documents                                  *)
(***************************************************************************)
KustName == "kustomization.yaml"
ValuesName == "values.yaml"

\* filepath.Join
Join(d, n) == d \o "/" \o n

OriginAnnotations == "originAnnotations"

\* descriptor files: plain, requesting provenance tracking, using the
\* deprecated fields bases and commonLabels, or both
KustPlain == "kind: Kustomization"
KustOrigin == "kind: Kustomization; buildMetadata: [originAnnotations]"
KustDep == "kind: Kustomization; bases; commonLabels"
KustDepOrigin == "kind: Kustomization; bases; commonLabels; buildMetadata: [originAnnotations]"
KustContents == {KustPlain, KustOrigin, KustDep, KustDepOrigin}

\* a values.yaml the caller keeps in the source tree
UserValues == "kind: ConfigMap; user"

NoKust == [BuildMetadata |-> <<>>, Deprecated |-> FALSE]

\* slices.Contains
Contains(seq, x) == \E i \in 1..Len(seq) : seq[i] = x

\* the descriptor decoded into kustomizetypes.Kustomization
ParseKust(c) ==
    [BuildMetadata |-> IF c \in {KustOrigin, KustDepOrigin} THEN <<OriginAnnotations>> ELSE <<>>,
     Deprecated |-> c \in {KustDep, KustDepOrigin}]

\* goyaml.Marshal(kust)
MarshalKust(k) ==
    IF Contains(k.BuildMetadata, OriginAnnotations)
    THEN (IF k.Deprecated THEN KustDepOrigin ELSE KustOrigin)
    ELSE (IF k.Deprecated THEN KustDep ELSE KustPlain)

\* kust.CheckDeprecatedFields(): one warning per deprecated field
CheckDeprecatedFields(k) ==
    IF k.Deprecated THEN <<"bases is deprecated", "commonLabels is deprecated">> ELSE <<>>

\* map[string]string values: functions from a set of keys to strings
KeyOrder == <<"image", "replicas">>
EmptyMap == [k \in {} |-> ""]
MapLen(m) == Cardinality(DOMAIN m)

\* "k: 'v'; " for every key of m, keys in sorted order
RECURSIVE JoinSorted(_, _)
JoinSorted(m, order) ==
    IF order = <<>> THEN ""
    ELSE (IF Head(order) \in DOMAIN m
          THEN Head(order) \o ": '" \o m[Head(order)] \o "'; "
          ELSE "") \o JoinSorted(m, Tail(order))

\* the generated values manifest, one entry per key
createValuesConfigMapYAML(values) == "kind: ConfigMap; data: " \o JoinSorted(values, KeyOrder)

EngineValues == {EmptyMap, [k \in {"replicas"} |-> "3"], [k \in {"replicas"} |-> "5"]}

\* annotations of a document
AnnOrigin == "config.kubernetes.io/origin"
AnnSourceType == "source.type"
AnnSourcePath == "source.path"
AnnSourceFile == "source.file"
AnnKeys == {AnnOrigin, AnnSourceType, AnnSourcePath, AnnSourceFile}
Absent == "<absent>"
rendererType == "kustomize"

(***************************************************************************)
(* Errors                                                                  *)
(***************************************************************************)
ErrPathMustBeDirectory == "path must be a directory containing a kustomization file, got a file instead"
ErrKustomizeWarnings == "kustomize warnings detected"
NoSentinel == "<no sentinel>"
NoPath == "<no path>"

\* an error: the message of the site that made it, the sentinel it matches
\* under errors.Is, the path its message carries, the warnings it lists
Err(kind, is, path, ws) == [kind |-> kind, is |-> is, path |-> path, ws |-> ws]
NoErr == Err(OK, NoSentinel, NoPath, <<>>)

(***************************************************************************)
(* Warning handlers                                                        *)
(***************************************************************************)
Handlers == {"nil", "WarningFail", "WarningIgnore", "customErr"}

WarningIgnore(ws) == NoErr

\* WarningLog(w): every warning is written to w; a failed write is returned
WarningLog(writable, ws) ==
    IF Len(ws) > 0 /\ ~writable
    THEN Err("failed to write warning", NoSentinel, NoPath, <<>>)
    ELSE NoErr

\* a WarningFail that lets the warnings pass
WarningFailSilent(ws) == NoErr

WarningFail(ws) ==
    IF Len(ws) > 0
    THEN Err("kustomize warnings detected", ErrKustomizeWarnings, NoPath, ws)
    ELSE NoErr

\* a handler of the caller that declines
CustomErr(ws) == Err("declined by the caller", NoSentinel, NoPath, <<>>)

\* handler(*warnings), the nil handler being WarningLog(os.Stderr)
InvokeHandler(h, writable, ws) ==
    CASE h = "nil" -> WarningLog(writable, ws)
      [] h = "WarningFail" -> WarningFail(ws)
      [] h = "WarningIgnore" -> WarningIgnore(ws)
      [] OTHER -> CustomErr(ws)

(***************************************************************************)
(* Adapter.CleanedAbs, descriptor loading, the builder                     *)
(***************************************************************************)
\* filepath.Base on the path universe
Base(p) == IF p = KustFile THEN KustName ELSE IF p = ValuesFile THEN ValuesName ELSE "app"

\* the paths given in relative form
RelPaths == {".", "app", KustName}

\* a path that names nothing
MissingPath == "/nonexistent/path"

\* filepath.Abs: a relative path is joined to the working directory
Abs(path, cwd) ==
    IF path \notin RelPaths THEN path
    ELSE IF path = "." THEN cwd
    ELSE IF cwd = Root THEN Root \o path
    ELSE Join(cwd, path)

ErrPermission == "permission denied"

\* a directory of the on-disk backend that is a symbolic link to AppDir
LinkDir == "/link"

\* filepath.EvalSymlinks on the on-disk backend
EvalSymlinks(p) ==
    CASE p = LinkDir -> AppDir
      [] p = Join(LinkDir, KustName) -> KustFile
      [] p = Join(LinkDir, ValuesName) -> ValuesFile
      [] OTHER -> p

\* the entry an access to p reaches in a store of the given kind: the
\* operating system resolves a relative path against the working directory
\* and follows links, an in-memory store looks the name up as it is given
Reached(okind, p) ==
    IF okind # OnDisk THEN p
    ELSE EvalSymlinks(CASE p = Join("app", KustName) -> KustFile
                        [] p = Join("app", ValuesName) -> ValuesFile
                        [] OTHER -> Abs(p, Root))

\* where CleanedAbs runs: the working directory of the process, the error
\* os.Getwd answers when it cannot name that directory (ENOENT once the
\* directory was removed), whether the Adapter wraps afero.OsFs, and the
\* failure the store answers a lookup with (other than the path being absent)
CleanedAbsEnvs ==
    [cwd : {Root, AppDir}, getwd : {OK, ErrNotExist, ErrPermission},
     osfs : BOOLEAN, fault : {OK, ErrPermission}]
MemEnv == [cwd |-> Root, getwd |-> OK, osfs |-> FALSE, fault |-> OK]

\* where the CleanedAbs of an Engine's filesystem runs
EngEnv(okind) == [MemEnv EXCEPT !.osfs = (okind = OnDisk)]

\* an error of CleanedAbs: the message of the site, what it matches under
\* errors.Is, the path it names
CleanedAbsErr(err, is, path) ==
    [err |-> err, is |-> is, path |-> path, dir |-> "", file |-> ""]

\* a CleanedAbs that returns every existing path as a directory
CleanedAbsNoSplit(fs, path, env) ==
    LET p == IF path = "" THEN "." ELSE path
        absPath == Abs(p, env.cwd)
    IN IF env.fault # OK THEN CleanedAbsErr("stat error", env.fault, p)
       ELSE IF ~MemExists(fs, absPath) THEN CleanedAbsErr(ErrNotExist, ErrNotExist, p)
       ELSE [err |-> OK, is |-> NoSentinel, path |-> NoPath, dir |-> absPath, file |-> ""]

\* filepath.Abs asks os.Getwd for a path that is not absolute, and fails
\* with its error
CleanedAbs(fs, path, env) ==
    LET p == IF path = "" THEN "." ELSE path
        absPath == Abs(p, env.cwd)
        resolvedPath == IF env.osfs THEN EvalSymlinks(absPath) ELSE absPath
    IN IF p \in RelPaths /\ env.getwd # OK
       THEN CleanedAbsErr("abs path error", env.getwd, p)
       ELSE IF env.osfs /\ env.fault # OK
       THEN CleanedAbsErr("evalsymlink failure", env.fault, p)
       ELSE IF env.osfs /\ ~MemExists(fs, resolvedPath)
       THEN CleanedAbsErr("evalsymlink failure", ErrNotExist, p)
       ELSE IF env.fault # OK
       THEN CleanedAbsErr("stat error", env.fault, p)
       ELSE IF ~MemExists(fs, resolvedPath)
       THEN CleanedAbsErr(ErrNotExist, ErrNotExist, p)
       ELSE IF MemIsDir(fs, resolvedPath)
       THEN [err |-> OK, is |-> NoSentinel, path |-> NoPath, dir |-> resolvedPath, file |-> ""]
       ELSE [err |-> OK, is |-> NoSentinel, path |-> NoPath,
             dir |-> Dir(resolvedPath), file |-> Base(resolvedPath)]

\* the descriptor is the kustomization file inside the overlay root
readKustomization(okind, fs, path) ==
    LET r == MemReadFile(fs, Reached(okind, Join(path, KustName))) IN
    IF r.err # OK \/ r.data \notin KustContents
    THEN [err |-> ErrNotExist, kust |-> NoKust, name |-> KustName]
    ELSE [err |-> OK, kust |-> ParseKust(r.data), name |-> KustName]

\* a read through the filesystem the builder was given
ViewRead(okind, kind, b, l, p) ==
    IF kind = "union" /\ MemExists(l, p) THEN UnionReadFile(b, l, p)
    ELSE MemReadFile(b, Reached(okind, p))

\* the root the builder's loader confirms, the CleanedAbs of the filesystem
\* it was given: the composed filesystem is an Adapter over a copy-on-write
\* store, which is not afero.OsFs, and its Stat looks into the overlay first
LoaderRoot(okind, kind, b, l, path) ==
    IF kind # "union" THEN CleanedAbs(b, path, EngEnv(okind))
    ELSE LET absPath == Abs(path, Root)
             inOverlay == MemExists(l, absPath)
             exists == inOverlay \/ MemExists(b, Reached(okind, absPath))
             isDir == IF inOverlay THEN MemIsDir(l, absPath)
                      ELSE MemIsDir(b, Reached(okind, absPath))
         IN IF ~exists THEN CleanedAbsErr(ErrNotExist, ErrNotExist, path)
            ELSE IF isDir
            THEN [err |-> OK, is |-> NoSentinel, path |-> NoPath, dir |-> absPath, file |-> ""]
            ELSE [err |-> OK, is |-> NoSentinel, path |-> NoPath,
                  dir |-> Dir(absPath), file |-> Base(absPath)]

\* kustomizer.Run(fs, path): one document for the declared resource and one
\* for values.yaml when the filesystem holds it; every document carries the
\* origin annotation when the descriptor requests provenance tracking
KustomizerRun(okind, kind, b, l, path) ==
    LET root == LoaderRoot(okind, kind, b, l, path)
        d == ViewRead(okind, kind, b, l, Join(root.dir, KustName))
    IN
    IF root.err # OK \/ root.file # "" \/ d.err # OK \/ d.data \notin KustContents
    THEN [err |-> "kustomizer run failed", docs |-> <<>>]
    ELSE LET track == Contains(ParseKust(d.data).BuildMetadata, OriginAnnotations)
             v == ViewRead(okind, kind, b, l, Join(root.dir, ValuesName))
             mk(name, data, file) ==
                 [name |-> name, data |-> data,
                  ann |-> [a \in AnnKeys |-> IF a = AnnOrigin /\ track THEN file ELSE Absent]]
         IN [err |-> OK,
             docs |-> <<mk("cm", "resource", "cm.yaml")>>
                      \o (IF v.err = OK THEN <<mk("values", v.data, ValuesName)>> ELSE <<>>)]

(***************************************************************************)
(* Engine.prepareFilesystem, conversion, annotation                        *)
(***************************************************************************)
\* what can fail inside a render besides the builder: the marshalling of the
\* rewritten descriptor, the making of the values manifest, the write of a
\* synthetic file into the overlay, the creation of the pipe
MarshalFault == "<marshal fails>"
ValuesFault == "<values manifest fails>"
PipeFault == "<pipe fails>"
PrepareFaults == Faults \cup {MarshalFault, ValuesFault}

\* what can fail in the conversion of a resource: res.Map and the
\* converter's FromUnstructured
MapFault == "<res.Map fails>"
UnstructuredFault == "<FromUnstructured fails>"
ConvertFaults == {NoFault, MapFault, UnstructuredFault}

Prepared(err, kind, b, l, added, resolved) ==
    [err |-> err, kind |-> kind, base |-> b, layer |-> l, added |-> added, resolved |-> resolved]

\* the synthetic files of a render with its descriptor and values
SyntheticFiles(dir, sa, kust, kustName, values) ==
    (IF sa /\ ~Contains(kust.BuildMetadata, OriginAnnotations)
     THEN <<[path |-> Join(dir, kustName),
             content |-> MarshalKust([kust EXCEPT !.BuildMetadata = Append(@, OriginAnnotations)])]>>
     ELSE <<>>)
    \o (IF MapLen(values) > 0
        THEN <<[path |-> Join(dir, ValuesName), content |-> createValuesConfigMapYAML(values)]>>
        ELSE <<>>)

\* a prepareFilesystem that writes the synthetic files into the Engine's
\* filesystem itself
RECURSIVE WriteAll(_, _)
WriteAll(fs, files) ==
    IF files = <<>> THEN fs
    ELSE WriteAll(MemWriteFile(fs, Head(files).path, Head(files).content), Tail(files))

prepareFilesystemInPlace(fs, o, inputPath, kust, kustName, values, fault) ==
    IF ~o.SourceAnnotations /\ MapLen(values) = 0
    THEN Prepared(NoErr, "base", fs, EmptyFs, FALSE, FALSE)
    ELSE Prepared(NoErr, "base",
                  WriteAll(fs, SyntheticFiles(inputPath, o.SourceAnnotations, kust, kustName, values)),
                  EmptyFs,
                  o.SourceAnnotations /\ ~Contains(kust.BuildMetadata, OriginAnnotations), TRUE)

\* a prepareFilesystem that composes only when there is a file to inject
prepareFilesystemLazy(fs, o, inputPath, kust, kustName, values, fault) ==
    LET add == o.SourceAnnotations /\ ~Contains(kust.BuildMetadata, OriginAnnotations) IN
    IF ~add /\ MapLen(values) = 0
    THEN Prepared(NoErr, "base", fs, EmptyFs, FALSE, FALSE)
    ELSE LET u == NewFs(o.FileSystem, fs, SyntheticFiles(inputPath, o.SourceAnnotations, kust, kustName, values), NoFault)
         IN Prepared(NoErr, "union", u.base, u.layer, add, TRUE)

prepareFilesystem(fs, o, inputPath, kust, kustName, values, fault) ==
    IF ~o.SourceAnnotations /\ MapLen(values) = 0
    THEN Prepared(NoErr, "base", fs, EmptyFs, FALSE, FALSE)
    ELSE LET r == CleanedAbs(fs, inputPath, EngEnv(o.FileSystem)) IN
         IF r.err # OK
         THEN Prepared(Err("failed to resolve path", r.is, inputPath, <<>>),
                       "none", fs, EmptyFs, FALSE, TRUE)
         ELSE IF r.file # ""
         THEN Prepared(Err("path", ErrPathMustBeDirectory, inputPath, <<>>),
                       "none", fs, EmptyFs, FALSE, TRUE)
         ELSE LET add == o.SourceAnnotations /\ ~Contains(kust.BuildMetadata, OriginAnnotations)
                  u == NewFs(o.FileSystem, fs,
                             SyntheticFiles(r.dir, o.SourceAnnotations, kust, kustName, values),
                             IF fault \in FilePaths THEN fault ELSE NoFault)
              IN IF add /\ fault = MarshalFault
                 THEN Prepared(Err("failed to marshal kustomization", NoSentinel, NoPath, <<>>),
                               "none", fs, EmptyFs, FALSE, TRUE)
                 ELSE IF MapLen(values) > 0 /\ fault = ValuesFault
                 THEN Prepared(Err("failed to create values ConfigMap", NoSentinel, NoPath, <<>>),
                               "none", fs, EmptyFs, FALSE, TRUE)
                 ELSE IF u.err # OK
                 THEN Prepared(Err("failed to create union filesystem", NoSentinel, NoPath, <<>>),
                               "none", fs, EmptyFs, FALSE, TRUE)
                 ELSE Prepared(NoErr, "union", u.base, u.layer, add, TRUE)

\* an addSourceAnnotationsToObject that does not look at the option
addSourceAnnotationsAlways(doc, o, inputPath) ==
    [doc EXCEPT !.ann[AnnSourceType] = rendererType, !.ann[AnnSourcePath] = inputPath]

addSourceAnnotationsToObject(doc, o, inputPath) ==
    IF ~o.SourceAnnotations THEN doc
    ELSE [doc EXCEPT !.ann =
            [a \in AnnKeys |->
                CASE a = AnnSourceType -> rendererType
                  [] a = AnnSourcePath -> inputPath
                  [] a = AnnSourceFile ->
                        IF doc.ann[AnnOrigin] # Absent THEN doc.ann[AnnOrigin] ELSE doc.ann[a]
                  [] OTHER -> doc.ann[a]]]

\* a removeOriginAnnotation that leaves the annotation in place
removeOriginAnnotationKept(doc) == doc

removeOriginAnnotation(doc) == [doc EXCEPT !.ann[AnnOrigin] = Absent]

\* the loop ends at the first resource whose conversion fails; the error
\* names the resource and not the render path
convertResources(docs, o, inputPath, fault) ==
    IF Len(docs) > 0 /\ fault = MapFault
    THEN [err |-> Err("failed to convert resource to map", NoSentinel, NoPath, <<>>),
          docs |-> <<>>]
    ELSE IF Len(docs) > 0 /\ fault = UnstructuredFault
    THEN [err |-> Err("failed to convert map to unstructured", NoSentinel, NoPath, <<>>),
          docs |-> <<>>]
    ELSE [err |-> NoErr,
          docs |-> [i \in 1..Len(docs) |-> addSourceAnnotationsToObject(docs[i], o, inputPath)]]

\* the plugin lists registered with WithPlugin: "a" and "b" transform every
\* resource, "bad" fails
PluginLists == {<<>>, <<"a", "b">>, <<"a", "bad", "b">>}

\* t.Transform(resMap): the plugin marks every resource, or fails
Transform(t, docs) ==
    IF t = "bad" THEN [err |-> "plugin failed", docs |-> docs]
    ELSE [err |-> OK, docs |-> [i \in 1..Len(docs) |-> [docs[i] EXCEPT !.data = @ \o "+" \o t]]]

\* a plugin loop that goes on after a plugin failed
RECURSIVE ApplyPluginsKeepGoing(_, _, _)
ApplyPluginsKeepGoing(plugins, docs, ran) ==
    IF plugins = <<>> THEN [err |-> OK, docs |-> docs, ran |-> ran]
    ELSE LET r == Transform(Head(plugins), docs)
             rest == ApplyPluginsKeepGoing(Tail(plugins), r.docs, Append(ran, Head(plugins)))
         IN IF r.err # OK THEN [rest EXCEPT !.err = r.err] ELSE rest

\* Run, lines 135-139: the plugins in registration order, up to the first
\* that fails; ran lists the plugins invoked
RECURSIVE ApplyPlugins(_, _, _)
ApplyPlugins(plugins, docs, ran) ==
    IF plugins = <<>> THEN [err |-> OK, docs |-> docs, ran |-> ran]
    ELSE LET r == Transform(Head(plugins), docs) IN
         IF r.err # OK
         THEN [err |-> r.err, docs |-> r.docs, ran |-> Append(ran, Head(plugins))]
         ELSE ApplyPlugins(Tail(plugins), r.docs, Append(ran, Head(plugins)))

\* a Run that strips the origin annotation whether or not it added the tracking
RunResultAlwaysStrip(built, o, inputPath, added, fault) ==
    IF built.err # OK
    THEN [err |-> Err("failed to run kustomize", built.err, inputPath, <<>>), docs |-> <<>>,
          plugins |-> <<>>]
    ELSE LET conv == convertResources(built.docs, o, inputPath, NoFault).docs IN
         [err |-> NoErr,
          docs |-> [i \in 1..Len(conv) |-> removeOriginAnnotation(conv[i])],
          plugins |-> <<>>]

\* Engine.Run from the build result on: wrap a build error, run the plugins,
\* convert, strip
RunResult(built, o, inputPath, added, fault) ==
    IF built.err # OK
    THEN [err |-> Err("failed to run kustomize", built.err, inputPath, <<>>), docs |-> <<>>,
          plugins |-> <<>>]
    ELSE LET t == ApplyPlugins(o.Plugins, built.docs, <<>>) IN
         IF t.err # OK
         THEN [err |-> Err("failed to apply kustomize plugin transformer", t.err, inputPath, <<>>),
               docs |-> <<>>, plugins |-> t.ran]
         ELSE LET conv == convertResources(t.docs, o, inputPath, fault) IN
              IF conv.err # NoErr
              THEN [err |-> conv.err, docs |-> <<>>, plugins |-> t.ran]
              ELSE [err |-> NoErr,
                    docs |-> IF added
                             THEN [i \in 1..Len(conv.docs) |-> removeOriginAnnotation(conv.docs[i])]
                             ELSE conv.docs,
                    plugins |-> t.ran]

(***************************************************************************)
(* Spec: Engine.Run calls, step by step, on one Engine                     *)
(***************************************************************************)
LoadRestrictionsUnknown == "LoadRestrictionsUnknown"
LoadRestrictionsRootOnly == "LoadRestrictionsRootOnly"
LoadRestrictionsNone == "LoadRestrictionsNone"
LoadRestrictionsValues ==
    {LoadRestrictionsUnknown, LoadRestrictionsRootOnly, LoadRestrictionsNone}

\* a Run that builds under the restriction the Engine was constructed with
EffectiveRestrictionsOfEngine(default, source) == default

\* Run, lines 86-89: the source's restriction when it is set, else the
\* renderer-wide one
EffectiveRestrictions(default, source) ==
    IF source # LoadRestrictionsUnknown THEN source ELSE default

Calls == {1, 2}
MaxRuns == 2
RunPaths == {AppDir, KustFile}

\* the render paths of the sequential calls: also a relative one and one
\* through the symbolic link
SeqPaths == RunPaths \cup {"app", LinkDir}

\* the values of the sequential calls
SeqValues == {EmptyMap, [k \in {"replicas"} |-> "3"]}

IdleRun ==
    [pc |-> "idle", path |-> AppDir, values |-> EmptyMap,
     kust |-> NoKust, warnings |-> <<>>,
     hstream |-> 0, hcalls |-> 0, harg |-> <<>>, hearly |-> TRUE, logged |-> FALSE,
     fsKind |-> "none", overlay |-> EmptyFs, added |-> FALSE, resolved |-> FALSE,
     old |-> 0, w |-> 0, builds |-> 0,
     source |-> LoadRestrictionsUnknown, restrictions |-> LoadRestrictionsUnknown,
     builtUnder |-> "<not built>", plugins |-> <<>>,
     built |-> [err |-> OK, docs |-> <<>>],
     docs |-> <<>>, err |-> NoErr]

EngIdle ==
    /\ efs = EmptyFs
    /\ efs0 = EmptyFs
    /\ eopts = [SourceAnnotations |-> FALSE, WarningHandler |-> "nil", FileSystem |-> "adapter",
                LoadRestrictions |-> LoadRestrictionsRootOnly, Plugins |-> <<>>]
    /\ osStderr = 0
    /\ closed = {}
    /\ pipes = 0
    /\ run = [c \in Calls |-> IdleRun]
    /\ started = 0

\* the source tree: /app with a descriptor and, possibly, a values.yaml
SourceTree(k, v) ==
    [p \in Paths |-> IF p = AppDir THEN DirEnt ELSE IF p = KustFile THEN k ELSE v]

\* the engines considered: a handler other than the default one is
\* configured only over a descriptor that has warnings, and the source tree
\* holds a values.yaml of its own only under the plain descriptor
EngConfigs ==
    {x \in [k : KustContents, v : {NoEnt, UserValues},
            o : [SourceAnnotations : BOOLEAN, WarningHandler : Handlers,
                 FileSystem : FsKinds,
                 LoadRestrictions : {LoadRestrictionsRootOnly}, Plugins : {<<>>}]] :
        /\ (x.o.FileSystem = "foreign" =>
                (x.k = KustPlain /\ x.v = NoEnt /\ x.o.WarningHandler = "nil"))
        /\ (~ParseKust(x.k).Deprecated => x.o.WarningHandler = "nil")
        /\ (x.v = UserValues => (x.k = KustPlain /\ x.o.WarningHandler = "nil"))}

EngInit ==
    /\ \E x \in EngConfigs :
        /\ efs = SourceTree(x.k, x.v)
        /\ eopts = x.o
    /\ efs0 = efs
    /\ osStderr = 0
    /\ closed = {}
    /\ pipes = 0
    /\ run = [c \in Calls |-> IdleRun]
    /\ started = 0

\* Run, lines 86-103: restrictions, readKustomization, CheckDeprecatedFields
RunLoad(c, path, values, source) ==
    /\ run[c].pc \in {"idle", "done"}
    /\ \A d \in Calls : d < c => run[d].pc # "idle"
    /\ started < MaxRuns
    /\ started' = started + 1
    /\ LET r == readKustomization(eopts.FileSystem, efs, path)
           ws == CheckDeprecatedFields(r.kust)
       IN run' = [run EXCEPT ![c] =
                    [IdleRun EXCEPT
                        !.path = path, !.values = values, !.kust = r.kust, !.warnings = ws,
                        !.source = source,
                        !.restrictions = EffectiveRestrictions(eopts.LoadRestrictions, source),
                        !.err = IF r.err # OK
                                THEN Err("unable to read kustomization", NoSentinel, path, <<>>)
                                ELSE NoErr,
                        !.pc = IF r.err # OK THEN "done"
                               ELSE IF Len(ws) > 0 THEN "pick" ELSE "prepare"]]
    /\ UNCHANGED <<efs, efs0, eopts, osStderr, closed, pipes>>
    /\ UNCHANGED <<fsVars, cacheVars, nestVars>>

\* Run, lines 104-107: the handler; the default one captures os.Stderr
RunPickHandler(c) ==
    /\ run[c].pc = "pick"
    /\ run' = [run EXCEPT ![c].hstream = osStderr, ![c].pc = "handle"]
    /\ UNCHANGED <<efs, efs0, eopts, osStderr, closed, pipes, started>>
    /\ UNCHANGED <<fsVars, cacheVars, nestVars>>

\* a Run that goes on to prepareFilesystem whatever the handler returned
RunHandleNoAbort(c) ==
    /\ run[c].pc = "handle"
    /\ LET writable == run[c].hstream \notin closed
           e == InvokeHandler(eopts.WarningHandler, writable, run[c].warnings)
       IN run' = [run EXCEPT
                    ![c].hcalls = @ + 1,
                    ![c].harg = run[c].warnings,
                    ![c].hearly = run[c].fsKind = "none" /\ run[c].builds = 0,
                    ![c].logged = eopts.WarningHandler = "nil" /\ writable,
                    ![c].err = e,
                    ![c].pc = "prepare"]
    /\ UNCHANGED <<efs, efs0, eopts, osStderr, closed, pipes, started>>
    /\ UNCHANGED <<fsVars, cacheVars, nestVars>>

\* Run, lines 109-111: the handler is invoked with the warnings
RunHandle(c) ==
    /\ run[c].pc = "handle"
    /\ LET writable == run[c].hstream \notin closed
           e == InvokeHandler(eopts.WarningHandler, writable, run[c].warnings)
       IN run' = [run EXCEPT
                    ![c].hcalls = @ + 1,
                    ![c].harg = run[c].warnings,
                    ![c].hearly = run[c].fsKind = "none" /\ run[c].builds = 0,
                    ![c].logged = eopts.WarningHandler = "nil" /\ writable,
                    ![c].err = e,
                    ![c].pc = IF e # NoErr THEN "done" ELSE "prepare"]
    /\ UNCHANGED <<efs, efs0, eopts, osStderr, closed, pipes, started>>
    /\ UNCHANGED <<fsVars, cacheVars, nestVars>>

\* Run, lines 115-118: prepareFilesystem
RunPrepare(c) ==
    /\ run[c].pc = "prepare"
    /\ \E fault \in PrepareFaults :
       LET r == prepareFilesystem(efs, eopts, run[c].path, run[c].kust, KustName,
                                  run[c].values, fault)
       IN /\ efs' = r.base
          /\ run' = [run EXCEPT
                        ![c].fsKind = r.kind, ![c].overlay = r.layer,
                        ![c].added = r.added, ![c].resolved = r.resolved,
                        ![c].err = r.err,
                        ![c].pc = IF r.err # NoErr THEN "done" ELSE "save"]
    /\ UNCHANGED <<efs0, eopts, osStderr, closed, pipes, started>>
    /\ UNCHANGED <<fsVars, cacheVars, nestVars>>

\* SuppressStderr, lines 14-20: os.Stderr is saved, a pipe is created; when
\* os.Pipe fails SuppressStderr returns without calling fn, and Run (lines
\* 131-133) wraps that error
SuppressSave(c) ==
    /\ run[c].pc = "save"
    /\ \E fault \in {NoFault, PipeFault} :
        IF fault = PipeFault
        THEN /\ pipes' = pipes
             /\ run' = [run EXCEPT
                          ![c].err = Err("failed to run kustomize", "failed to create pipe",
                                         run[c].path, <<>>),
                          ![c].pc = "done"]
        ELSE /\ pipes' = pipes + 1
             /\ run' = [run EXCEPT ![c].old = osStderr, ![c].w = pipes + 1,
                                    ![c].pc = "redirect"]
    /\ UNCHANGED <<efs, efs0, eopts, osStderr, closed, started>>
    /\ UNCHANGED <<fsVars, cacheVars, nestVars>>

\* SuppressStderr, line 23: os.Stderr is the pipe
SuppressRedirect(c) ==
    /\ run[c].pc = "redirect"
    /\ osStderr' = run[c].w
    /\ run' = [run EXCEPT ![c].pc = "build"]
    /\ UNCHANGED <<efs, efs0, eopts, closed, pipes, started>>
    /\ UNCHANGED <<fsVars, cacheVars, nestVars>>

\* a Run that calls the builder again after it failed
RunBuildRetry(c) ==
    /\ run[c].pc = "build"
    /\ \E fails \in BOOLEAN :
        run' = [run EXCEPT
                  ![c].builds = @ + 1,
                  ![c].builtUnder = run[c].restrictions,
                  ![c].built = IF fails THEN [err |-> "kustomizer run failed", docs |-> <<>>]
                               ELSE KustomizerRun(eopts.FileSystem, run[c].fsKind, efs, run[c].overlay, run[c].path),
                  ![c].pc = IF fails /\ run[c].builds = 0 THEN "build" ELSE "restore"]
    /\ UNCHANGED <<efs, efs0, eopts, osStderr, closed, pipes, started>>
    /\ UNCHANGED <<fsVars, cacheVars, nestVars>>

\* Run, lines 123-129: the builder runs, and may fail
RunBuild(c) ==
    /\ run[c].pc = "build"
    /\ \E fails \in BOOLEAN :
        run' = [run EXCEPT
                  ![c].builds = @ + 1,
                  ![c].builtUnder = run[c].restrictions,
                  ![c].built = IF fails THEN [err |-> "kustomizer run failed", docs |-> <<>>]
                               ELSE KustomizerRun(eopts.FileSystem, run[c].fsKind, efs, run[c].overlay, run[c].path),
                  ![c].pc = "restore"]
    /\ UNCHANGED <<efs, efs0, eopts, osStderr, closed, pipes, started>>
    /\ UNCHANGED <<fsVars, cacheVars, nestVars>>

\* a restore that is skipped when fn panics
RestoreStderrNoDefer(old, cur, outcome) == IF outcome = "panic" THEN cur ELSE old

\* SuppressStderr, lines 26-30: the deferred function puts the saved stream
\* back however fn ended
RestoreStderr(old, cur, outcome) == old

\* SuppressStderr, lines 26-30: os.Stderr is restored, the pipe is closed
SuppressRestore(c) ==
    /\ run[c].pc = "restore"
    /\ osStderr' = RestoreStderr(run[c].old, osStderr,
                                 IF run[c].built.err # OK THEN "error" ELSE "nil")
    /\ closed' = closed \cup {run[c].w}
    /\ run' = [run EXCEPT ![c].pc = "finish"]
    /\ UNCHANGED <<efs, efs0, eopts, pipes, started>>
    /\ UNCHANGED <<fsVars, cacheVars, nestVars>>

\* Run, lines 131-154: error wrapping, conversion, annotation stripping
RunFinish(c) ==
    /\ run[c].pc = "finish"
    /\ \E fault \in ConvertFaults :
       LET r == RunResult(run[c].built, eopts, run[c].path, run[c].added, fault)
       IN run' = [run EXCEPT ![c].docs = r.docs, ![c].err = r.err,
                              ![c].plugins = r.plugins, ![c].pc = "done"]
    /\ UNCHANGED <<efs, efs0, eopts, osStderr, closed, pipes, started>>
    /\ UNCHANGED <<fsVars, cacheVars, nestVars>>

Next ==
    \/ \E c \in Calls, p \in RunPaths, v \in EngineValues :
            RunLoad(c, p, v, LoadRestrictionsUnknown)
    \/ \E c \in Calls : RunPickHandler(c)
    \/ \E c \in Calls : RunHandle(c)
    \/ \E c \in Calls : RunPrepare(c)
    \/ \E c \in Calls : SuppressSave(c)
    \/ \E c \in Calls : SuppressRedirect(c)
    \/ \E c \in Calls : RunBuild(c)
    \/ \E c \in Calls : SuppressRestore(c)
    \/ \E c \in Calls : RunFinish(c)

(***************************************************************************)
(* SpecSeq: Engine.Run calls made one after the other, over every option   *)
(***************************************************************************)
\* the engines considered: the default handler, an in-memory or an on-disk
\* Adapter, over a descriptor that is plain, requests provenance tracking or
\* uses deprecated fields
SeqConfigs ==
    [k : {KustPlain, KustOrigin, KustDep}, v : {NoEnt},
     o : [SourceAnnotations : BOOLEAN, WarningHandler : {"nil"},
          FileSystem : {"adapter", OnDisk},
          LoadRestrictions : LoadRestrictionsValues,
          Plugins : PluginLists]]

SeqNext ==
    \/ \E p \in SeqPaths, v \in SeqValues, lr \in LoadRestrictionsValues :
            RunLoad(1, p, v, lr)
    \/ RunPickHandler(1)
    \/ RunHandle(1)
    \/ RunPrepare(1)
    \/ SuppressSave(1)
    \/ SuppressRedirect(1)
    \/ RunBuild(1)
    \/ SuppressRestore(1)
    \/ RunFinish(1)

(***************************************************************************)
(* SpecFs                                                                  *)
(***************************************************************************)
NoOp == [op |-> "none", path |-> Root, data |-> EmptyContent, err |-> OK]

NoSup == [ran |-> FALSE, before |-> 0, during |-> 0, after |-> 0,
          outcome |-> "none", result |-> "none"]

NestIdle ==
    /\ stack = <<>>
    /\ supLast = NoSup
    /\ unwinding = FALSE

CacheIdle ==
    /\ cstore = {}
    /\ clock = 0
    /\ calls = <<>>
    /\ builderCalls = 0
    /\ heap = <<>>
    /\ keyFn = "DefaultCacheKey"

NoCleanedAbs == [called |-> FALSE, path |-> Root, env |-> MemEnv,
                 res |-> CleanedAbsErr(OK, NoSentinel, NoPath)]

\* paths as their components, for the base-path filesystem
BasePaths == {<<"app">>, <<"a">>}
BasePathNames == {<<"values.yaml">>, <<"kustomization.yaml">>,
                  <<"..", "values.yaml">>, <<"..", "app", "values.yaml">>}

\* filepath.Clean of a rooted path: "." is dropped, ".." removes the
\* component before it and is dropped at the root
RECURSIVE CleanFrom(_, _)
CleanFrom(done, rest) ==
    IF rest = <<>> THEN done
    ELSE IF Head(rest) = "." THEN CleanFrom(done, Tail(rest))
    ELSE IF Head(rest) = ".."
    THEN CleanFrom(IF done = <<>> THEN done ELSE SubSeq(done, 1, Len(done) - 1), Tail(rest))
    ELSE CleanFrom(Append(done, Head(rest)), Tail(rest))

Clean(comps) == CleanFrom(<<>>, comps)

\* the path as a string
RECURSIVE Slashed(_)
Slashed(comps) == IF comps = <<>> THEN "" ELSE "/" \o Head(comps) \o Slashed(Tail(comps))

ToPath(comps) == IF comps = <<>> THEN Root ELSE Slashed(comps)

\* strings.HasPrefix
HasPrefix(str, prefix) ==
    Len(prefix) <= Len(str) /\ SubSeq(str, 1, Len(prefix)) = prefix

\* afero BasePathFs.RealPath: the name is joined to the base path and
\* cleaned, and is refused unless the base path is a prefix of the result
RealPath(bp, name) ==
    LET bpath == ToPath(Clean(bp))
        path == ToPath(Clean(bp \o name))
    IN IF ~HasPrefix(path, bpath) THEN [err |-> ErrNotExist, path |-> ToPath(name)]
       ELSE [err |-> OK, path |-> path]

\* NewBasePathFs(base, basePath): only over a base that provides Unwrap
NewBasePathFs(kind) ==
    IF HasUnwrap(kind) THEN OK
    ELSE "base filesystem must be created with fs package functions"

BasePathOps == {"ReadFile", "WriteFile", "RemoveAll"}

\* a call through the base-path filesystem: the operation is applied to the
\* base at the translated path
BasePathCall(bp, op, name, b, c) ==
    LET r == RealPath(bp, name) IN
    IF r.err # OK
    THEN [base |-> b, real |-> r.path, accepted |-> FALSE, err |-> r.err, data |-> EmptyContent]
    ELSE IF op = "ReadFile"
    THEN [base |-> b, real |-> r.path, accepted |-> TRUE,
          err |-> MemReadFile(b, r.path).err, data |-> MemReadFile(b, r.path).data]
    ELSE IF op = "WriteFile"
    THEN [base |-> MemWriteFile(b, r.path, c), real |-> r.path, accepted |-> TRUE,
          err |-> OK, data |-> c]
    ELSE [base |-> MemRemoveAll(b, r.path), real |-> r.path, accepted |-> TRUE,
          err |-> OK, data |-> EmptyContent]

NoBasePathCall == [op |-> "none", name |-> <<>>, real |-> Root, accepted |-> FALSE,
                   err |-> OK, data |-> EmptyContent]
NoBasePathFs == [made |-> FALSE, bp |-> <<>>, err |-> OK, call |-> NoBasePathCall]

NoNewFs == [made |-> FALSE, bkind |-> "adapter", opts |-> <<>>, fault |-> NoFault,
            err |-> OK, path |-> NoFault]

FsIdle ==
    /\ base = EmptyFs
    /\ layer = EmptyFs
    /\ base0 = EmptyFs
    /\ phase = "setup"
    /\ lastOp = NoOp
    /\ baseKind = "adapter"
    /\ newfs = NoNewFs
    /\ cabs = NoCleanedAbs
    /\ bpfs = NoBasePathFs

FsInit ==
    /\ base = EmptyFs
    /\ layer = EmptyFs
    /\ base0 = EmptyFs
    /\ phase = "setup"
    /\ lastOp = NoOp
    /\ baseKind \in FsKinds
    /\ newfs = NoNewFs
    /\ cabs = NoCleanedAbs
    /\ bpfs = NoBasePathFs
    /\ EngIdle /\ CacheIdle /\ NestIdle

\* the caller fills the base before composing
FsBaseWriteFile(p, c) ==
    /\ phase = "setup"
    /\ base' = MemWriteFile(base, p, c)
    /\ UNCHANGED <<layer, base0, phase, lastOp, baseKind, newfs>>
    /\ UNCHANGED <<cabs, bpfs, engVars, cacheVars, nestVars>>

FsBaseMkdirAll(p) ==
    /\ phase = "setup"
    /\ base' = MemMkdirAll(base, p)
    /\ UNCHANGED <<layer, base0, phase, lastOp, baseKind, newfs>>
    /\ UNCHANGED <<cabs, bpfs, engVars, cacheVars, nestVars>>

\* NewReadOnlyFs(base): an Adapter over afero's read-only view when the base
\* provides Unwrap, the readOnlyWrapper otherwise
NewReadOnlyFs(kind) == IF HasUnwrap(kind) THEN "roAfero" ELSE "roWrapper"

\* union.NewFs over the base, or over NewReadOnlyFs(base)
FsNewFs(opts, fault, readOnly) ==
    /\ phase = "setup"
    /\ LET bkind == IF readOnly THEN NewReadOnlyFs(baseKind) ELSE baseKind
           r == NewFs(bkind, base, opts, fault)
       IN /\ base' = r.base
          /\ layer' = r.layer
          /\ base0' = base
          /\ phase' = IF r.err = OK THEN "composed" ELSE "failed"
          /\ newfs' = [made |-> TRUE, bkind |-> bkind, opts |-> opts, fault |-> fault,
                       err |-> r.err, path |-> r.path]
    /\ UNCHANGED <<lastOp, baseKind>>
    /\ UNCHANGED <<cabs, bpfs, engVars, cacheVars, nestVars>>

FsApply(op, p, c, r) ==
    /\ base' = r.base
    /\ layer' = r.layer
    /\ lastOp' = [op |-> op, path |-> p, data |-> c, err |-> r.err]
    /\ newfs' = NoNewFs
    /\ UNCHANGED <<base0, phase, baseKind>>
    /\ UNCHANGED <<cabs, bpfs, engVars, cacheVars, nestVars>>

FsWriteFile(p, c) ==
    /\ phase = "composed"
    /\ FsApply("WriteFile", p, c, UnionWriteFile(base, layer, p, c))

FsCreate(p) ==
    /\ phase = "composed"
    /\ FsApply("Create", p, EmptyContent, UnionCreate(base, layer, p))

\* File.Write on the handle the last Create returned, which is still open:
\* Create through the union opens the file of the overlay
FsFileWrite(c) ==
    /\ phase = "composed"
    /\ lastOp.op = "Create" /\ lastOp.err = OK
    /\ FsApply("Write", lastOp.path, c,
               [base |-> base, layer |-> MemWriteFile(layer, lastOp.path, c), err |-> OK])

FsMkdir(p) ==
    /\ phase = "composed"
    /\ FsApply("Mkdir", p, EmptyContent, UnionMkdir(base, layer, p))

FsMkdirAll(p) ==
    /\ phase = "composed"
    /\ FsApply("MkdirAll", p, EmptyContent, UnionMkdirAll(base, layer, p))

FsRemoveAll(p) ==
    /\ phase = "composed"
    /\ FsApply("RemoveAll", p, EmptyContent, UnionRemoveAll(base, layer, p))

\* the read-only variant is made: NewReadOnlyFs(base)
FsNewReadOnlyFs ==
    /\ phase = "setup"
    /\ phase' = NewReadOnlyFs(baseKind)
    /\ base0' = base
    /\ UNCHANGED <<base, layer, lastOp, baseKind, newfs>>
    /\ UNCHANGED <<cabs, bpfs, engVars, cacheVars, nestVars>>

\* the roots NewFromIOFS is given: none, and the directory of the tree
IOFSRoots == {<<>>, <<"app">>}

\* the names read through the filesystem NewFromIOFS returns
IOFSNames == {<<"kustomization.yaml">>, <<"app", "kustomization.yaml">>,
              <<"..", "app", "kustomization.yaml">>}

\* ReadFile through the filesystem NewFromIOFS(fsys, root) returns: with a
\* root the name is resolved under it by afero's BasePathFs; without one the
\* name goes to fsys.Open as it was given, and the error is the one of the
\* fs.FS: fstest.MapFS and embed.FS answer a name that is not a valid io/fs
\* path (an element "." or "..") as they answer an absent one
IOFSReadFile(root, b, name) ==
    IF root = <<>>
    THEN IF \E i \in 1..Len(name) : name[i] \in {".", ".."}
         THEN [real |-> ToPath(name), accepted |-> FALSE,
               err |-> ErrNotExist, data |-> EmptyContent]
         ELSE [real |-> ToPath(name), accepted |-> TRUE,
               err |-> MemReadFile(b, ToPath(name)).err,
               data |-> MemReadFile(b, ToPath(name)).data]
    ELSE LET r == RealPath(root, name) IN
         IF r.err # OK
         THEN [real |-> r.path, accepted |-> FALSE, err |-> r.err, data |-> EmptyContent]
         ELSE [real |-> r.path, accepted |-> TRUE,
               err |-> MemReadFile(b, r.path).err, data |-> MemReadFile(b, r.path).data]

\* the read-only variant is made: NewFromIOFS(fsys, root) over a tree of
\* this content; bpfs.bp holds the root
FsNewFromIOFS(root) ==
    /\ phase = "setup"
    /\ phase' = "iofs"
    /\ base0' = base
    /\ bpfs' = [NoBasePathFs EXCEPT !.bp = root]
    /\ UNCHANGED <<base, layer, lastOp, baseKind, newfs>>
    /\ UNCHANGED <<cabs, engVars, cacheVars, nestVars>>

\* ReadFile through the filesystem NewFromIOFS returned; bpfs.call holds
\* the call and its result
FsIOFSReadFile(name) ==
    /\ phase = "iofs"
    /\ LET r == IOFSReadFile(bpfs.bp, base, name) IN
        bpfs' = [bpfs EXCEPT !.call = [op |-> "ReadFile", name |-> name, real |-> r.real,
                                       accepted |-> r.accepted, err |-> r.err,
                                       data |-> r.data]]
    /\ UNCHANGED <<base, layer, base0, phase, lastOp, baseKind, newfs>>
    /\ UNCHANGED <<cabs, engVars, cacheVars, nestVars>>

\* the paths CleanedAbs is called with: absolute, relative, empty, absent,
\* and through the linked directory
CleanedAbsPaths ==
    Paths \cup RelPaths \cup {Root, "", MissingPath, LinkDir, Join(LinkDir, KustName)}

\* Adapter.CleanedAbs on the base, an Adapter of this repository over a
\* store of the content built so far (a foreign filesystem has a CleanedAbs
\* of its own; that of the composed filesystem is LoaderRoot)
FsCleanedAbs(path, env) ==
    /\ phase = "setup"
    /\ baseKind = "adapter"
    /\ phase' = "resolved"
    /\ cabs' = [called |-> TRUE, path |-> path, env |-> env,
                res |-> CleanedAbs(base, path, env)]
    /\ UNCHANGED <<base, layer, base0, lastOp, baseKind, newfs, bpfs>>
    /\ UNCHANGED <<engVars, cacheVars, nestVars>>

\* NewBasePathFs(base, basePath)
FsNewBasePathFs(bp) ==
    /\ phase = "setup"
    /\ phase' = IF NewBasePathFs(baseKind) = OK THEN "basepath" ELSE "failed"
    /\ base0' = base
    /\ bpfs' = [made |-> TRUE, bp |-> bp, err |-> NewBasePathFs(baseKind),
                call |-> NoBasePathCall]
    /\ UNCHANGED <<base, layer, lastOp, baseKind, newfs, cabs>>
    /\ UNCHANGED <<engVars, cacheVars, nestVars>>

\* a call through the base-path filesystem; a write is considered when its
\* target is refused or is a file path of the universe
FsBasePathCall(op, name, c) ==
    /\ phase = "basepath"
    /\ LET r == BasePathCall(bpfs.bp, op, name, base, c) IN
        /\ (op = "WriteFile" /\ r.accepted) => r.real \in FilePaths
        /\ base' = r.base
        /\ bpfs' = [bpfs EXCEPT !.call = [op |-> op, name |-> name, real |-> r.real,
                                          accepted |-> r.accepted, err |-> r.err,
                                          data |-> r.data]]
    /\ UNCHANGED <<layer, base0, phase, lastOp, baseKind, newfs, cabs>>
    /\ UNCHANGED <<engVars, cacheVars, nestVars>>

MutatingOps == {"Create", "WriteFile", "Mkdir", "MkdirAll", "RemoveAll"}

\* a read-only variant whose MkdirAll and RemoveAll do nothing and say so
ReadOnlyCallSilent(kind, op, b, p, c) ==
    [base |-> b,
     err |-> IF op \in {"MkdirAll", "RemoveAll"} THEN OK
             ELSE "operation not permitted"]

\* a mutating call on a read-only variant: the readOnlyWrapper refuses with
\* its own message, afero's read-only view with EPERM
ReadOnlyCall(kind, op, b, p, c) ==
    [base |-> b,
     err |-> IF kind = "roWrapper"
             THEN (CASE op = "Create" -> "create not supported on read-only filesystem"
                     [] op = "Mkdir" -> "mkdir not supported on read-only filesystem"
                     [] op = "MkdirAll" -> "mkdirall not supported on read-only filesystem"
                     [] op = "RemoveAll" -> "removeall not supported on read-only filesystem"
                     [] OTHER -> "writefile not supported on read-only filesystem")
             ELSE "operation not permitted"]

\* a read through a read-only variant goes to the wrapped filesystem
ReadOnlyReadFile(kind, b, p) == MemReadFile(b, p)

FsReadOnlyCall(op, p, c) ==
    /\ phase \in ReadOnlyKinds
    /\ LET r == ReadOnlyCall(phase, op, base, p, c) IN
        /\ base' = r.base
        /\ lastOp' = [op |-> op, path |-> p, data |-> c, err |-> r.err]
    /\ UNCHANGED <<layer, base0, phase, baseKind, newfs>>
    /\ UNCHANGED <<cabs, bpfs, engVars, cacheVars, nestVars>>

FsNext ==
    \/ \E p \in FilePaths, c \in FsContents : FsBaseWriteFile(p, c)
    \/ \E p \in DirPaths : FsBaseMkdirAll(p)
    \/ \E opts \in OverrideLists, f \in Faults, ro \in BOOLEAN : FsNewFs(opts, f, ro)
    \/ \E p \in FilePaths, c \in FsContents : FsWriteFile(p, c)
    \/ \E p \in FilePaths : FsCreate(p)
    \/ \E c \in FsContents : FsFileWrite(c)
    \/ \E p \in DirPaths : FsMkdir(p)
    \/ \E p \in DirPaths : FsMkdirAll(p)
    \/ \E p \in Paths : FsRemoveAll(p)
    \/ FsNewReadOnlyFs
    \/ \E root \in IOFSRoots : FsNewFromIOFS(root)
    \/ \E n \in IOFSNames : FsIOFSReadFile(n)
    \/ \E op \in MutatingOps, p \in Paths, c \in FsContents : FsReadOnlyCall(op, p, c)
    \/ \E p \in CleanedAbsPaths, env \in CleanedAbsEnvs : FsCleanedAbs(p, env)
    \/ \E bp \in BasePaths : FsNewBasePathFs(bp)
    \/ \E op \in BasePathOps, n \in BasePathNames, c \in FsContents : FsBasePathCall(op, n, c)

SpecFs == FsInit /\ [][FsNext]_vars

Init == FsIdle /\ EngInit /\ CacheIdle /\ NestIdle

Spec == Init /\ [][Next]_vars

SeqInit ==
    /\ FsIdle /\ CacheIdle /\ NestIdle
    /\ \E x \in SeqConfigs :
        /\ efs = SourceTree(x.k, x.v)
        /\ eopts = x.o
    /\ efs0 = efs
    /\ osStderr = 0
    /\ closed = {}
    /\ pipes = 0
    /\ run = [c \in Calls |-> IdleRun]
    /\ started = 0

SpecSeq == SeqInit /\ [][SeqNext]_vars

(***************************************************************************)
(* SpecCache: Renderer.Process calls through the render cache              *)
(***************************************************************************)
MaxProcess == 2
MaxClock == 3
CacheTTL == 2

\* a Go map[string]string: nil or not, its pairs, the order range yields them
NilMap == [nil |-> TRUE, m |-> EmptyMap, order |-> <<>>]
Perms(S) == {s \in [1..Cardinality(S) -> S] : \A i, j \in 1..Cardinality(S) : s[i] = s[j] => i = j}
MapContents ==
    {EmptyMap, [k \in {"image", "replicas"} |-> IF k = "image" THEN "a" ELSE "3"],
     [k \in {"image"} |-> "a replicas:3"]}
GoMaps ==
    {NilMap} \cup
    UNION {{[nil |-> FALSE, m |-> mm, order |-> o] : o \in Perms(DOMAIN mm)} : mm \in MapContents}

KustomizationSpec(path, values) == [Path |-> path, Values |-> values]

\* the position of a key in the order of strings
KeyRank(k) == CHOOSE i \in 1..Len(KeyOrder) : KeyOrder[i] = k

RECURSIVE InsertSorted(_, _)
InsertSorted(k, s) ==
    IF s = <<>> THEN <<k>>
    ELSE IF KeyRank(k) < KeyRank(Head(s)) THEN <<k>> \o s
    ELSE <<Head(s)>> \o InsertSorted(k, Tail(s))

\* spew's sortValues over the keys as MapKeys yields them
RECURSIVE sortValues(_)
sortValues(keys) ==
    IF keys = <<>> THEN <<>> ELSE InsertSorted(Head(keys), sortValues(Tail(keys)))

\* "k:v k:v", the pairs in the order given
RECURSIVE SpewPairs(_, _)
SpewPairs(m, keys) ==
    IF keys = <<>> THEN ""
    ELSE Head(keys) \o ":" \o m[Head(keys)]
         \o (IF Tail(keys) = <<>> THEN "" ELSE " " \o SpewPairs(m, Tail(keys)))

\* spew's rendering of a map: a nil map is told apart from an empty one
SpewMap(g) ==
    IF g.nil THEN "<nil>" ELSE "map[" \o SpewPairs(g.m, sortValues(g.order)) \o "]"

\* dump.ForHash: Sprintf("%#v") under SortKeys
ForHash(spec) ==
    "(kustomize.KustomizationSpec){Path:(string)" \o spec.Path
        \o " Values:(map[string]string)" \o SpewMap(spec.Values) \o "}"

DefaultCacheKey(spec) == ForHash(spec)

\* a path key that also encodes the values
FastCacheKeyWithValues(spec) == ForHash(spec)

FastCacheKey(spec) == spec.Path

PathOnlyCacheKey(spec) == spec.Path

KeyFuncs == {"DefaultCacheKey", "FastCacheKey", "PathOnlyCacheKey"}

\* the configured key function applied to a specification
CacheKey(fn, spec) ==
    CASE fn = "FastCacheKey" -> FastCacheKey(spec)
      [] fn = "PathOnlyCacheKey" -> PathOnlyCacheKey(spec)
      [] OTHER -> DefaultCacheKey(spec)

\* Engine.Run as one sequential call
EngineRun(fs, o, path, values, fault) ==
    LET k == readKustomization(o.FileSystem, fs, path) IN
    IF k.err # OK
    THEN [err |-> Err("unable to read kustomization", NoSentinel, path, <<>>),
          docs |-> <<>>, ran |-> FALSE]
    ELSE LET ws == CheckDeprecatedFields(k.kust)
             h == IF Len(ws) > 0 THEN InvokeHandler(o.WarningHandler, TRUE, ws) ELSE NoErr
         IN IF h # NoErr THEN [err |-> h, docs |-> <<>>, ran |-> FALSE]
            ELSE LET p == prepareFilesystem(fs, o, path, k.kust, k.name, values, fault) IN
                 IF p.err # NoErr THEN [err |-> p.err, docs |-> <<>>, ran |-> FALSE]
                 ELSE IF fault = PipeFault
                 THEN [err |-> Err("failed to run kustomize", "failed to create pipe", path, <<>>),
                       docs |-> <<>>, ran |-> FALSE]
                 ELSE LET r == RunResult(KustomizerRun(o.FileSystem, p.kind, p.base, p.layer, path),
                                         o, path, p.added, fault)
                      IN [err |-> r.err, docs |-> r.docs, ran |-> TRUE]

\* the cache's get: an entry is live until the clock is past its expiry
CacheGet(store, key, now) == {e \in store : e.key = key /\ ~(now > e.expiresAt)}

\* the cache's set: one entry per key, holding the list at reference ref
CacheSet(store, key, value, ref, now, ttl) ==
    {e \in store : e.key # key}
        \cup {[key |-> key, value |-> value, ref |-> ref, expiresAt |-> now + ttl]}

NoRef == 0

\* a cache that hands out the list it holds
GetRefShared(stored, fresh) == stored

\* the list a hit returns: a deep copy of the one the cache holds
GetRef(stored, fresh) == fresh

\* the list the cache keeps: a deep copy of the one it was given
SetRef(given, fresh) == fresh

\* what a caller may do to the list it got: drop the documents, or write
\* into the annotation map of the first one
Mutations == {"truncate", "annotate"}
MutateDocs(docs, kind) ==
    IF kind = "truncate" \/ docs = <<>> THEN <<>>
    ELSE [docs EXCEPT ![1].ann[AnnSourceType] = "mutated"]

CacheInit ==
    /\ FsIdle
    /\ efs = SourceTree(KustPlain, NoEnt)
    /\ eopts = [SourceAnnotations |-> TRUE, WarningHandler |-> "nil", FileSystem |-> "adapter",
                LoadRestrictions |-> LoadRestrictionsRootOnly, Plugins |-> <<>>]
    /\ efs0 = efs
    /\ osStderr = 0
    /\ closed = {}
    /\ pipes = 0
    /\ run = [c \in Calls |-> IdleRun]
    /\ started = 0
    /\ cstore = {}
    /\ clock = 0
    /\ calls = <<>>
    /\ builderCalls = 0
    /\ heap = <<>>
    /\ keyFn \in KeyFuncs
    /\ NestIdle

\* Process of one render specification: key, lookup, render on a miss, store
Process(path, values, fault) ==
    /\ Len(calls) < MaxProcess
    /\ LET spec == KustomizationSpec(path, values)
           key == CacheKey(keyFn, spec)
           found == CacheGet(cstore, key, clock)
           fresh == Len(heap) + 1
       IN IF found # {}
          THEN LET e == CHOOSE x \in found : TRUE
                   ref == GetRef(e.ref, fresh)
               IN /\ heap' = Append(heap, heap[e.ref])
                  /\ calls' = Append(calls,
                        [spec |-> spec, key |-> key, hit |-> TRUE, ran |-> FALSE,
                         docs |-> heap'[ref], ref |-> ref, cached |-> e.value,
                         err |-> NoErr, at |-> clock])
                  /\ UNCHANGED <<cstore, builderCalls>>
          ELSE LET r == EngineRun(efs, eopts, path, values.m, fault) IN
               /\ calls' = Append(calls,
                        [spec |-> spec, key |-> key, hit |-> FALSE, ran |-> r.ran,
                         docs |-> r.docs, ref |-> IF r.err = NoErr THEN fresh ELSE NoRef,
                         cached |-> <<>>,
                         err |-> r.err, at |-> clock])
               /\ builderCalls' = builderCalls + (IF r.ran THEN 1 ELSE 0)
               /\ heap' = IF r.err = NoErr THEN heap \o <<r.docs, r.docs>> ELSE heap
               /\ cstore' = IF r.err = NoErr
                            THEN CacheSet(cstore, key, r.docs, SetRef(fresh, fresh + 1),
                                          clock, CacheTTL)
                            ELSE cstore
    /\ UNCHANGED <<clock, keyFn>>
    /\ UNCHANGED <<fsVars, engVars, nestVars>>

\* the caller of the i-th Process call writes into the list it got
Mutate(i, kind) ==
    /\ i \in 1..Len(calls)
    /\ calls[i].ref # NoRef
    /\ heap[calls[i].ref] # MutateDocs(heap[calls[i].ref], kind)
    /\ heap' = [heap EXCEPT ![calls[i].ref] = MutateDocs(@, kind)]
    /\ UNCHANGED <<cstore, clock, calls, builderCalls, keyFn>>
    /\ UNCHANGED <<fsVars, engVars, nestVars>>

\* time passes
Tick ==
    /\ clock < MaxClock
    /\ clock' = clock + 1
    /\ UNCHANGED <<cstore, calls, builderCalls, heap, keyFn>>
    /\ UNCHANGED <<fsVars, engVars, nestVars>>

\* the specifications processed: every values map under the overlay root,
\* and a path that is not an overlay root; the value that holds a space and
\* a colon is given only where the key depends on the values; a failure
\* inside the render is considered on the render without values, under the
\* default key function
ProcessInputs ==
    {x \in (({AppDir} \X GoMaps) \cup ({KustFile} \X {NilMap})) \X {NoFault} :
        (\E k \in DOMAIN x[1][2].m : x[1][2].m[k] = "a replicas:3") => keyFn = "DefaultCacheKey"}
    \cup (IF keyFn = "DefaultCacheKey"
          THEN {<<AppDir, NilMap>>} \X {MarshalFault, PipeFault, MapFault}
          ELSE {})

CacheNext ==
    \/ \E x \in ProcessInputs : Process(x[1][1], x[1][2], x[2])
    \/ \E i \in 1..MaxProcess, k \in Mutations : Mutate(i, k)
    \/ Tick

SpecCache == CacheInit /\ [][CacheNext]_vars

(***************************************************************************)
(* SpecNest: SuppressStderr calls of one goroutine, properly nested        *)
(***************************************************************************)
MaxDepth == 3
MaxSuppress == 4
FnOutcomes == {"nil", "error", "panic"}

\* SuppressStderr, lines 13-23: the stream is saved, a pipe is created and
\* becomes os.Stderr; when no pipe can be created fn is not run
NestEnter(pipeOK) ==
    /\ ~unwinding
    /\ Len(stack) < MaxDepth
    /\ pipes < MaxSuppress
    /\ IF pipeOK
       THEN /\ pipes' = pipes + 1
            /\ stack' = Append(stack, [old |-> osStderr, w |-> pipes + 1])
            /\ osStderr' = pipes + 1
            /\ UNCHANGED supLast
       ELSE /\ supLast' = [ran |-> FALSE, before |-> osStderr, during |-> osStderr,
                           after |-> osStderr, outcome |-> "none",
                           result |-> "failed to create pipe"]
            /\ UNCHANGED <<pipes, stack, osStderr>>
    /\ UNCHANGED <<closed, unwinding>>
    /\ UNCHANGED <<efs, efs0, eopts, run, started>>
    /\ UNCHANGED <<fsVars, cacheVars>>

\* SuppressStderr, lines 26-38: fn ends, the deferred function restores the
\* stream and closes the pipe, the call returns what fn returned; a panic
\* goes on into the enclosing call
NestExit(outcome) ==
    /\ stack # <<>>
    /\ unwinding => outcome = "panic"
    /\ LET top == stack[Len(stack)] IN
        /\ osStderr' = RestoreStderr(top.old, osStderr, outcome)
        /\ closed' = closed \cup {top.w}
        /\ supLast' = [ran |-> TRUE, before |-> top.old, during |-> osStderr,
                       after |-> osStderr', outcome |-> outcome, result |-> outcome]
    /\ stack' = SubSeq(stack, 1, Len(stack) - 1)
    /\ unwinding' = (outcome = "panic" /\ Len(stack) > 1)
    /\ UNCHANGED pipes
    /\ UNCHANGED <<efs, efs0, eopts, run, started>>
    /\ UNCHANGED <<fsVars, cacheVars>>

NestNext ==
    \/ \E ok \in BOOLEAN : NestEnter(ok)
    \/ \E o \in FnOutcomes : NestExit(o)

NestInit == FsIdle /\ EngIdle /\ CacheIdle /\ NestIdle

SpecNest == NestInit /\ [][NestNext]_vars

(***************************************************************************)
(* Claims                                                                  *)
(***************************************************************************)

\* C1: for every path that is a file in both the base and the overlay,
\* ReadFile/Open, Exists and IsDir on the composed filesystem answer from the
\* overlay (its content, exists, not a directory), never from the base,
\* after any sequence of writes through the composed filesystem.
C1_OverlayShadowsBase ==
    phase = "composed" =>
        \A p \in FilePaths :
            (IsFileEnt(base[p]) /\ IsFileEnt(layer[p])) =>
                /\ UnionReadFile(base, layer, p) = [err |-> OK, data |-> layer[p]]
                /\ UnionExists(base, layer, p)
                /\ ~UnionIsDir(base, layer, p)

\* a write through the union has replaced the overlay's content of a path
\* whose base content differs
C1_Witness ==
    /\ phase = "composed"
    /\ lastOp.op = "WriteFile" /\ lastOp.err = OK
    /\ IsFileEnt(base[lastOp.path])
    /\ layer[lastOp.path] = lastOp.data
    /\ base[lastOp.path] # lastOp.data

\* C2: whatever mutating calls (Create, WriteFile, Mkdir, MkdirAll,
\* RemoveAll) are made through the composed filesystem, the base holds the
\* paths and contents it held when union.NewFs returned.
C2_BaseUnchanged == phase = "composed" => base = base0

\* RemoveAll through the union of a path that exists only in the base
C2_Witness ==
    /\ phase = "composed"
    /\ lastOp.op = "RemoveAll" /\ lastOp.err = OK
    /\ lastOp.path \in FilePaths
    /\ IsFileEnt(base[lastOp.path])
    /\ layer[lastOp.path] = NoEnt
    /\ \E q \in FilePaths : IsFileEnt(base[q]) /\ IsFileEnt(layer[q]) /\ layer[q] # base[q]

\* the descriptor of the source tree requests provenance tracking
SourceHasOrigin == Contains(ParseKust(efs0[KustFile]).BuildMetadata, OriginAnnotations)

\* the data of the values documents a finished call returned
ValuesSeen(c) == {run[c].docs[i].data : i \in {j \in 1..Len(run[c].docs) : run[c].docs[j].name = "values"}}

\* the values document a call must see: its own manifest, else the source tree's
ValuesExpected(c) ==
    IF MapLen(run[c].values) > 0 THEN {createValuesConfigMapYAML(run[c].values)}
    ELSE IF efs0[ValuesFile] # NoEnt THEN {efs0[ValuesFile]}
    ELSE {}

\* C3: after any sequence of Engine.Run calls, sequential or interleaved, the
\* Engine's filesystem holds what it held at construction (descriptor not
\* rewritten, no values.yaml created or altered); the synthetic files live in
\* the overlay of the call that made them, so every call builds from its own
\* values manifest and never from another call's.
C3_SourceTreeUntouched ==
    /\ efs = efs0
    /\ \A c \in Calls :
        /\ (run[c].fsKind = "union" =>
                run[c].overlay[ValuesFile] =
                    (IF MapLen(run[c].values) > 0
                     THEN createValuesConfigMapYAML(run[c].values) ELSE NoEnt))
        /\ ((run[c].pc = "done" /\ run[c].err = NoErr) => ValuesSeen(c) = ValuesExpected(c))

\* two interleaved renders with different values and a rewritten descriptor
\* have both returned
C3_Witness ==
    /\ run[1].pc = "done" /\ run[1].err = NoErr
    /\ run[2].pc = "done" /\ run[2].err = NoErr
    /\ MapLen(run[1].values) > 0 /\ MapLen(run[2].values) > 0
    /\ run[1].values # run[2].values
    /\ run[1].added /\ run[2].added
    /\ run[2].old = run[1].w

\* C4: with source annotations enabled and a descriptor that did not request
\* provenance tracking, no returned document carries the builder's
\* config.kubernetes.io/origin annotation; the provenance annotations present
\* are the renderer's own (source type, source path, source file).
C4_NoOriginLeak ==
    (eopts.SourceAnnotations /\ ~SourceHasOrigin) =>
        \A c \in Calls : run[c].pc = "done" =>
            \A i \in 1..Len(run[c].docs) :
                /\ run[c].docs[i].ann[AnnOrigin] = Absent
                /\ run[c].docs[i].ann[AnnSourceType] = rendererType
                /\ run[c].docs[i].ann[AnnSourcePath] = run[c].path

\* a render returned documents whose origin annotation was attached by the
\* builder (the source file is known from it) and then stripped
C4_Witness ==
    /\ eopts.SourceAnnotations /\ ~SourceHasOrigin
    /\ \E c \in Calls :
        /\ run[c].pc = "done" /\ run[c].err = NoErr /\ run[c].added
        /\ Len(run[c].docs) = 2
        /\ run[c].docs[2].ann[AnnSourceFile] = ValuesName

\* synthetic injection is needed: provenance tracking must be added, or
\* there are values
InjectionNeeded(c) ==
    \/ (eopts.SourceAnnotations /\ ~Contains(run[c].kust.BuildMetadata, OriginAnnotations))
    \/ MapLen(run[c].values) > 0

\* the call has come out of prepareFilesystem without an error
Prepared_(c) == run[c].fsKind # "none"

\* C5 (as claimed): the builder gets a composed overlay filesystem, and the
\* path is resolved, if and only if injection is needed; in every other case
\* the builder gets the original filesystem and nothing is resolved.
C5_ComposedIffInjection ==
    \A c \in Calls : Prepared_(c) =>
        /\ (run[c].fsKind = "union") = InjectionNeeded(c)
        /\ run[c].resolved = InjectionNeeded(c)

\* C5 (amended): the builder gets a composed overlay filesystem, and the
\* path is resolved, if and only if source annotations are enabled or the
\* values are non-empty; the overlay then holds a rewritten descriptor only
\* if provenance tracking had to be added and a values.yaml only if there
\* are values, and with annotations disabled and no values the builder gets
\* the original filesystem and nothing is resolved.
C5_ComposedIffAnnotationsOrValues ==
    \A c \in Calls : Prepared_(c) =>
        LET wanted == eopts.SourceAnnotations \/ MapLen(run[c].values) > 0 IN
        /\ (run[c].fsKind = "union") = wanted
        /\ (run[c].fsKind = "base") = ~wanted
        /\ run[c].resolved = wanted
        /\ (run[c].overlay[KustFile] # NoEnt) = run[c].added
        /\ run[c].added = (eopts.SourceAnnotations
                            /\ ~Contains(run[c].kust.BuildMetadata, OriginAnnotations))
        /\ (run[c].overlay[ValuesFile] # NoEnt) = (MapLen(run[c].values) > 0)

\* source annotations on, provenance tracking already requested, no values:
\* the render went through an overlay that holds nothing
C5_Witness ==
    \E c \in Calls :
        /\ run[c].pc = "done" /\ run[c].err = NoErr
        /\ eopts.SourceAnnotations
        /\ Contains(run[c].kust.BuildMetadata, OriginAnnotations)
        /\ MapLen(run[c].values) = 0
        /\ run[c].fsKind = "union" /\ run[c].resolved
        /\ run[c].overlay = EmptyFs

\* C6: a render whose path is a file returns an error matching
\* ErrPathMustBeDirectory, and the builder is not invoked.
C6_FilePathRejected ==
    \A c \in Calls :
        (run[c].pc = "done" /\ IsFileEnt(efs0[run[c].path])) =>
            /\ run[c].err.is = ErrPathMustBeDirectory
            /\ run[c].builds = 0

\* C7: under WarningFail a render whose descriptor has warnings ends with an
\* error matching ErrKustomizeWarnings that lists every warning, returns no
\* document, and never reaches overlay composition or the builder;
\* WarningFail returns nil for an empty list.
C7_WarningFailAborts ==
    /\ WarningFail(<<>>) = NoErr
    /\ eopts.WarningHandler = "WarningFail" =>
        \A c \in Calls : Len(run[c].warnings) > 0 =>
            /\ run[c].pc \in {"pick", "handle", "done"}
            /\ run[c].fsKind = "none" /\ ~run[c].resolved /\ run[c].builds = 0
            /\ run[c].docs = <<>>
            /\ (run[c].pc = "done" =>
                    /\ run[c].err.is = ErrKustomizeWarnings
                    /\ run[c].err.ws = CheckDeprecatedFields(ParseKust(efs0[KustFile])))

\* a render over the deprecated descriptor was rejected with both warnings
C7_Witness ==
    /\ eopts.WarningHandler = "WarningFail"
    /\ \E c \in Calls :
        /\ run[c].pc = "done"
        /\ run[c].err.is = ErrKustomizeWarnings
        /\ Len(run[c].err.ws) = 2

\* the number of handler invocations a call owes once past the handler
HandlerDue(c) == IF Len(run[c].warnings) > 0 THEN 1 ELSE 0

\* C8: in each Run the handler is invoked exactly once, with the full warning
\* list, when the descriptor has warnings, and never when it has none; it is
\* invoked after the descriptor is loaded and before overlay composition and
\* the builder; a handler error ends the render with that error.
C8_HandlerOnce ==
    \A c \in Calls :
        /\ run[c].hcalls <= HandlerDue(c)
        /\ (run[c].pc \in {"idle", "pick", "handle"} => run[c].hcalls = 0)
        /\ (run[c].pc \in {"prepare", "save", "redirect", "build", "restore", "finish", "done"}
                => run[c].hcalls = HandlerDue(c))
        /\ ((run[c].fsKind # "none" \/ run[c].resolved \/ run[c].builds > 0)
                => run[c].hcalls = HandlerDue(c))
        /\ (run[c].hcalls = 1 =>
                /\ run[c].harg = CheckDeprecatedFields(ParseKust(efs0[KustFile]))
                /\ run[c].hearly)
        /\ ((run[c].hcalls = 1 /\ eopts.WarningHandler = "customErr") =>
                /\ run[c].pc = "done"
                /\ run[c].err = CustomErr(run[c].warnings)
                /\ run[c].fsKind = "none" /\ run[c].builds = 0 /\ run[c].docs = <<>>)

\* a render whose handler got both warnings and let them pass has built
C8_Witness ==
    /\ eopts.WarningHandler = "WarningIgnore"
    /\ \E c \in Calls :
        /\ run[c].pc = "done" /\ run[c].err = NoErr
        /\ run[c].hcalls = 1 /\ Len(run[c].harg) = 2
        /\ run[c].builds = 1 /\ Len(run[c].docs) > 0

\* C9: with no handler configured, the default handler writes the warnings
\* to os.Stderr and never fails the render: every render of a descriptor
\* with warnings goes on to the build.
C9_DefaultHandlerNeverFails ==
    eopts.WarningHandler = "nil" =>
        \A c \in Calls :
            (run[c].pc = "done" /\ Len(run[c].warnings) > 0) =>
                /\ run[c].hcalls = 1
                /\ run[c].err.kind # "failed to write warning"
                /\ run[c].builds = 1

\* two render specifications hold the same pairs under the same path
SameSpec(a, b) == a.Path = b.Path /\ a.Values.m = b.Values.m

\* C10: under the default key function two render specifications with the
\* same path and the same values content, whatever the insertion order, have
\* the same cache key, and the later of two Process calls with such
\* specifications, made while the entry the earlier one stored is live,
\* returns the cached documents without invoking the builder.
C10_EqualSpecsShareKey ==
    \A i, j \in 1..Len(calls) :
        (/\ keyFn = "DefaultCacheKey"
         /\ i < j
         /\ SameSpec(calls[i].spec, calls[j].spec)
         /\ ~calls[i].hit /\ calls[i].err = NoErr
         /\ calls[j].at <= calls[i].at + CacheTTL) =>
            /\ calls[j].key = calls[i].key
            /\ calls[j].hit /\ ~calls[j].ran
            /\ calls[j].docs = calls[i].docs

\* C11: whatever a caller does to the document list a Process call returned
\* (or to an annotation map inside it), the list the cache holds stays the
\* one that was rendered, and every later Process call that hits the same key
\* returns the rendered documents in a list of its own.
C11_CachedValueIsolated ==
    /\ \A e \in cstore : heap[e.ref] = e.value
    /\ \A j \in 1..Len(calls) : calls[j].hit =>
            /\ calls[j].docs = calls[j].cached
            /\ \E i \in 1..(j - 1) :
                    /\ ~calls[i].hit /\ calls[i].key = calls[j].key
                    /\ calls[j].cached = calls[i].docs
            /\ \A e \in cstore : e.ref # calls[j].ref
            /\ \A i \in 1..Len(calls) : i # j => calls[i].ref # calls[j].ref

\* a caller changed the list its miss returned, and a later call hit the key
C11_Witness ==
    \E i, j \in 1..Len(calls) :
        /\ i < j /\ calls[i].key = calls[j].key
        /\ ~calls[i].hit /\ calls[j].hit
        /\ calls[i].ref # NoRef
        /\ heap[calls[i].ref] # calls[i].docs
        /\ calls[j].docs = calls[i].docs
        /\ Len(calls[j].docs) > 0

\* C12: under FastCacheKey and PathOnlyCacheKey the key of every
\* specification is its path: two specifications with the same path get the
\* same key whatever their values, and the key says nothing of the values.
C12_PathKeyIgnoresValues ==
    keyFn \in {"FastCacheKey", "PathOnlyCacheKey"} =>
        /\ \A i \in 1..Len(calls) : calls[i].key = calls[i].spec.Path
        /\ \A i, j \in 1..Len(calls) :
                calls[i].spec.Path = calls[j].spec.Path => calls[i].key = calls[j].key
        /\ \A p \in RunPaths, v, w \in GoMaps :
                /\ FastCacheKey(KustomizationSpec(p, v)) = FastCacheKey(KustomizationSpec(p, w))
                /\ PathOnlyCacheKey(KustomizationSpec(p, v)) = p

\* two calls with the same path and different values got the same key
C12_Witness ==
    /\ keyFn = "FastCacheKey"
    /\ \E i, j \in 1..Len(calls) :
        /\ i < j
        /\ calls[i].spec.Path = calls[j].spec.Path
        /\ calls[i].spec.Values.m # calls[j].spec.Values.m
        /\ calls[i].key = calls[j].key
        /\ calls[j].hit

\* every Engine.Run call has returned or was never made
AllReturned == \A c \in Calls : run[c].pc \in {"idle", "done"}

\* C13: for every interleaving of concurrent Run calls, os.Stderr never
\* refers to a pipe that has been closed, and once every call has returned
\* os.Stderr is the stream it was before the first call.
C13_StderrRestoredConcurrently ==
    /\ osStderr \notin closed
    /\ (AllReturned => osStderr = 0)

\* C14: in a properly nested sequence of SuppressStderr calls of one
\* goroutine, while fn runs os.Stderr is not the stream in effect when the
\* call began; when the call ends, fn having returned nil, returned an error
\* or panicked, os.Stderr is that stream again and the call has returned
\* what fn returned; with no call in progress os.Stderr is the original
\* stream.
C14_NestedRestore ==
    /\ \A k \in 1..Len(stack) : osStderr # stack[k].old
    /\ (~unwinding /\ stack # <<>>) => osStderr = stack[Len(stack)].w
    /\ (stack = <<>> => osStderr = 0)
    /\ supLast.after = supLast.before
    /\ (supLast.ran =>
            /\ supLast.during # supLast.before
            /\ supLast.result = supLast.outcome)

\* an inner call ended by a panic that is now going through the outer one
C14_Witness ==
    /\ supLast.ran /\ supLast.outcome = "panic"
    /\ unwinding /\ Len(stack) = 1
    /\ supLast.after = stack[1].w
    /\ supLast.after # 0

\* C15: through the filesystem union.NewFs returned, a path held by exactly
\* one layer reads and exists as that layer's entry, and a path held by
\* neither layer does not exist and cannot be read.
C15_ReadOverlayThenBase ==
    phase = "composed" =>
        \A p \in FilePaths :
            /\ (IsFileEnt(layer[p]) /\ base[p] = NoEnt) =>
                    /\ UnionReadFile(base, layer, p) = [err |-> OK, data |-> layer[p]]
                    /\ UnionExists(base, layer, p)
            /\ (layer[p] = NoEnt /\ IsFileEnt(base[p])) =>
                    /\ UnionReadFile(base, layer, p) = [err |-> OK, data |-> base[p]]
                    /\ UnionExists(base, layer, p)
            /\ (layer[p] = NoEnt /\ base[p] = NoEnt) =>
                    /\ UnionReadFile(base, layer, p).err = ErrNotExist
                    /\ ~UnionExists(base, layer, p)

\* one file only in the base, the other only in the overlay
C15_Witness ==
    /\ phase = "composed"
    /\ \E p, q \in FilePaths :
        /\ IsFileEnt(base[p]) /\ layer[p] = NoEnt
        /\ IsFileEnt(layer[q]) /\ base[q] = NoEnt

\* the positions of the options of a NewFs call that give an overlay
OverlayPositions(opts) == {i \in 1..Len(opts) : IsOverlayOpt(opts[i])}

\* the positions of the options that give a content for path q
PairPositions(opts, q) == {i \in 1..Len(opts) : ~IsOverlayOpt(opts[i]) /\ opts[i].path = q}

Last(S) == CHOOSE i \in S : \A j \in S : j <= i

\* what the overlay must hold right after union.NewFs returned
JustComposed == phase = "composed" /\ lastOp = NoOp /\ newfs.made

\* C16: when an overlay is supplied, the composed overlay is that overlay as
\* given and no pair is written to it or to the base; otherwise the overlay
\* is fresh and holds exactly the supplied pairs, the last content for a
\* path given more than once; a failed write ends the construction with an
\* error naming the path.
C16_OverlayDetermined ==
    /\ JustComposed =>
        /\ base = base0
        /\ IF OverlayPositions(newfs.opts) # {}
           THEN layer = newfs.opts[Last(OverlayPositions(newfs.opts))].overlay
           ELSE /\ \A q \in FilePaths :
                      layer[q] = IF PairPositions(newfs.opts, q) = {} THEN NoEnt
                                 ELSE newfs.opts[Last(PairPositions(newfs.opts, q))].content
                /\ newfs.fault = NoFault \/ PairPositions(newfs.opts, newfs.fault) = {}
    /\ (newfs.made /\ OverlayPositions(newfs.opts) = {} /\ newfs.fault # NoFault
            /\ PairPositions(newfs.opts, newfs.fault) # {}) =>
        /\ phase = "failed"
        /\ newfs.err = "failed to write override"
        /\ newfs.path = newfs.fault

\* an overlay was supplied along with a pair, and the overlay composed is
\* the one supplied, which does not hold the pair
C16_Witness ==
    /\ JustComposed
    /\ OverlayPositions(newfs.opts) # {}
    /\ \E q \in FilePaths : PairPositions(newfs.opts, q) # {} /\ layer[q] = NoEnt
    /\ layer # EmptyFs

\* the overlay in effect of the NewFs call made is of a kind without Unwrap
ForeignOverlayInEffect ==
    /\ OverlayPositions(newfs.opts) # {}
    /\ ~HasUnwrap(newfs.opts[Last(OverlayPositions(newfs.opts))].okind)

\* C17: union.NewFs returns an error and no filesystem whenever the base or
\* the overlay in effect does not provide Unwrap, and the base keeps its
\* content.
C17_NoUnwrapNoUnion ==
    (newfs.made /\ (~HasUnwrap(newfs.bkind) \/ ForeignOverlayInEffect)) =>
        /\ phase = "failed"
        /\ newfs.err # OK
        /\ base = base0

\* NewFs over the read-only wrapper of a foreign base that holds a file
C17_Witness ==
    /\ phase = "failed"
    /\ newfs.made /\ newfs.bkind = "roWrapper"
    /\ newfs.err = "base filesystem must be created with fs package functions"
    /\ \E p \in FilePaths : IsFileEnt(base[p])

\* C18: whatever the kind of the filesystem given with WithFileSystem, a render
\* that needs a synthetic file on a directory is not ended by the composition
\* of the overlay; it goes on to the builder.
C18_CustomFileSystemRenders ==
    \A c \in Calls :
        (run[c].resolved /\ run[c].pc \notin {"idle", "prepare"}) =>
            /\ run[c].err.kind # "failed to create union filesystem"
            /\ (run[c].err = NoErr /\ run[c].pc = "done" => run[c].builds = 1)

\* C19: on every read-only variant each of Create, WriteFile, Mkdir, MkdirAll
\* and RemoveAll returns an error, the wrapped base keeps the content it had
\* when the variant was made, and a read through the variant gives that
\* content.
C19_ReadOnlyRefuses ==
    phase \in ReadOnlyKinds =>
        /\ base = base0
        /\ (lastOp.op \in MutatingOps => lastOp.err # OK)
        /\ phase # "iofs" =>
              \A p \in Paths : ReadOnlyReadFile(phase, base, p) = MemReadFile(base0, p)
        /\ (phase = "iofs" /\ bpfs.call.op = "ReadFile" /\ bpfs.call.accepted) =>
              /\ bpfs.call.real = ToPath(Clean(bpfs.bp \o bpfs.call.name))
              /\ [err |-> bpfs.call.err, data |-> bpfs.call.data]
                    = MemReadFile(base0, bpfs.call.real)
        /\ (phase = "iofs" /\ bpfs.call.op = "ReadFile" /\ ~bpfs.call.accepted) =>
              /\ bpfs.call.err # OK
              /\ bpfs.call.data = EmptyContent

\* RemoveAll of a file the wrapped foreign base holds was refused, and the
\* file still reads
C19_Witness ==
    /\ phase = "roWrapper"
    /\ lastOp.op = "RemoveAll"
    /\ lastOp.err = "removeall not supported on read-only filesystem"
    /\ IsFileEnt(base[lastOp.path])
    /\ ReadOnlyReadFile(phase, base, lastOp.path).err = OK

\* the absolute form of the path the CleanedAbs call was given
CalledAbs == Abs(IF cabs.path = "" THEN "." ELSE cabs.path, cabs.env.cwd)

\* the entry of the store that path names: over afero.OsFs the operating
\* system follows the links in it
CalledEntry == IF cabs.env.osfs THEN EvalSymlinks(CalledAbs) ELSE CalledAbs

\* the call could make its path absolute
CalledAbsOK == cabs.path \in RelPaths \cup {""} => cabs.env.getwd = OK

\* C20 as stated: Adapter.CleanedAbs returns (the path made absolute, "")
\* for a path that, made absolute, is an existing directory, (its parent, its
\* file name) for an existing file, an error matching fs.ErrNotExist for a
\* path that does not exist, an error that does not match it for any other
\* failure of the lookup, and treats the empty path as ".".
C20_CleanedAbsSplits ==
    (cabs.called /\ CalledAbsOK) =>
        /\ (cabs.env.fault = OK /\ MemIsDir(base, CalledEntry)) =>
                /\ cabs.res.err = OK
                /\ cabs.res.dir = CalledAbs
                /\ cabs.res.file = ""
        /\ (cabs.env.fault = OK /\ MemExists(base, CalledEntry) /\ ~MemIsDir(base, CalledEntry)) =>
                /\ cabs.res.err = OK
                /\ Join(cabs.res.dir, cabs.res.file) = CalledAbs
        /\ (cabs.env.fault = OK /\ ~MemExists(base, CalledEntry)) =>
                /\ cabs.res.err # OK
                /\ cabs.res.is = ErrNotExist
        /\ (cabs.env.fault # OK) =>
                /\ cabs.res.err # OK
                /\ cabs.res.is # ErrNotExist
        /\ (cabs.path = "") => cabs.res = CleanedAbs(base, ".", cabs.env)

\* C20, amended: Adapter.CleanedAbs treats the empty path as ".", fails with
\* 'abs path error' carrying the cause when the path cannot be made absolute,
\* and otherwise answers for the absolute path with, over afero.OsFs, its
\* symbolic links resolved: (that path, "") for an existing directory, (its
\* parent, its file name) for an existing file, an error matching
\* fs.ErrNotExist for a path that does not exist, and an error that does not
\* match it for any other failure of the lookup.
C20_CleanedAbsResolves ==
    cabs.called =>
        /\ ~CalledAbsOK =>
                /\ cabs.res.err = "abs path error"
                /\ cabs.res.is = cabs.env.getwd
                /\ cabs.res.dir = "" /\ cabs.res.file = ""
        /\ (CalledAbsOK /\ cabs.env.fault = OK /\ MemIsDir(base, CalledEntry)) =>
                /\ cabs.res.err = OK
                /\ cabs.res.dir = CalledEntry
                /\ cabs.res.file = ""
        /\ (CalledAbsOK /\ cabs.env.fault = OK
                /\ MemExists(base, CalledEntry) /\ ~MemIsDir(base, CalledEntry)) =>
                /\ cabs.res.err = OK
                /\ cabs.res.dir = Dir(CalledEntry)
                /\ cabs.res.file = Base(CalledEntry)
                /\ Join(cabs.res.dir, cabs.res.file) = CalledEntry
        /\ (CalledAbsOK /\ cabs.env.fault = OK /\ ~MemExists(base, CalledEntry)) =>
                /\ cabs.res.err # OK
                /\ cabs.res.is = ErrNotExist
        /\ (CalledAbsOK /\ cabs.env.fault # OK) =>
                /\ cabs.res.err # OK
                /\ cabs.res.is # ErrNotExist
        /\ (cabs.path = "") => cabs.res = CleanedAbs(base, ".", cabs.env)

\* over afero.OsFs the descriptor was given through the linked directory and
\* came back as (/app, kustomization.yaml)
C20_Witness ==
    /\ cabs.called
    /\ cabs.path = Join(LinkDir, KustName)
    /\ cabs.env.osfs
    /\ cabs.res.err = OK
    /\ cabs.res.dir = AppDir
    /\ cabs.res.file = KustName

\* the path is the base path or lies below it
WithinBasePath(path, bp) ==
    \/ path = ToPath(Clean(bp))
    \/ HasPrefix(path, ToPath(Clean(bp)) \o "/")

\* C21: a call through the filesystem NewBasePathFs returned is applied to the
\* base at the base path joined with the path given, no call reads or writes
\* a location of the base outside the base path, and NewBasePathFs fails over
\* a base that does not provide Unwrap.
C21_BasePathConfines ==
    bpfs.made =>
        /\ (bpfs.err # OK) = ~HasUnwrap(baseKind)
        /\ bpfs.call.accepted =>
              /\ bpfs.call.real = ToPath(Clean(bpfs.bp \o bpfs.call.name))
              /\ WithinBasePath(bpfs.call.real, bpfs.bp)
        /\ \A p \in Paths : ~WithinBasePath(p, bpfs.bp) => base[p] = base0[p]

\* C22: the builder is invoked under the source's LoadRestrictions when the
\* source sets one, and under the renderer-wide default otherwise.
C22_RestrictionsResolved ==
    \A c \in Calls : run[c].builds > 0 =>
        run[c].builtUnder =
            (IF run[c].source # LoadRestrictionsUnknown
             THEN run[c].source ELSE eopts.LoadRestrictions)

\* a source asking for no restriction was built so by a renderer whose default
\* is root-only
C22_Witness ==
    /\ eopts.LoadRestrictions = LoadRestrictionsRootOnly
    /\ run[1].pc = "done" /\ run[1].err = NoErr
    /\ run[1].source = LoadRestrictionsNone
    /\ run[1].builtUnder = LoadRestrictionsNone

\* the call has returned documents
Returned(c) == run[c].pc = "done" /\ run[c].err = NoErr /\ run[c].builds > 0

\* C23: with source annotations enabled every returned document carries the
\* renderer-identity annotation, the source-path annotation equal to the
\* render's path, and the source-file annotation exactly when the builder
\* reported an origin for it; with source annotations disabled the annotations
\* are the builder's; in both cases name and content are the builder's.
C23_AnnotationsOnly ==
    \A c \in Calls : Returned(c) =>
        /\ Len(run[c].docs) = Len(run[c].built.docs)
        /\ \A i \in 1..Len(run[c].docs) :
            LET d == run[c].docs[i]
                b == run[c].built.docs[i]
            IN /\ d.name = b.name
               /\ d.data = b.data
               /\ IF eopts.SourceAnnotations
                  THEN /\ d.ann[AnnSourceType] = rendererType
                       /\ d.ann[AnnSourcePath] = run[c].path
                       /\ (d.ann[AnnSourceFile] # Absent) = (b.ann[AnnOrigin] # Absent)
                       /\ (b.ann[AnnOrigin] # Absent => d.ann[AnnSourceFile] = b.ann[AnnOrigin])
                  ELSE d.ann = b.ann

\* a render with values returned two documents carrying the renderer's three
\* annotations, the source file being the one the builder reported
C23_Witness ==
    /\ eopts.SourceAnnotations
    /\ \E c \in Calls :
        /\ Returned(c)
        /\ Len(run[c].docs) = 2
        /\ run[c].built.docs[2].ann[AnnOrigin] = ValuesName
        /\ run[c].docs[2].ann[AnnSourceFile] = ValuesName
        /\ run[c].docs[2].ann[AnnSourcePath] = AppDir
        /\ run[c].docs[2].ann[AnnSourceType] = rendererType

\* C24: in each Run the builder is invoked at most once; when it fails Run
\* returns no document and an error that wraps the builder's error and
\* carries the render's path.
C24_BuildOnceNoRetry ==
    \A c \in Calls :
        /\ run[c].builds <= 1
        /\ (run[c].pc \in {"restore", "finish", "done"} /\ run[c].builds = 1
                /\ run[c].built.err # OK) => run[c].docs = <<>>
        /\ (run[c].pc = "done" /\ run[c].builds = 1 /\ run[c].built.err # OK) =>
                /\ run[c].err.kind = "failed to run kustomize"
                /\ run[c].err.is = run[c].built.err
                /\ run[c].err.path = run[c].path

\* a render whose build failed has returned the wrapped error
C24_Witness ==
    \E c \in Calls :
        /\ run[c].pc = "done" /\ run[c].builds = 1
        /\ run[c].built.err = "kustomizer run failed"
        /\ run[c].err.is = "kustomizer run failed"
        /\ run[c].err.path = AppDir
        /\ run[c].docs = <<>>

\* C25: every error Run returns carries the path of the render.
C25_ErrorsCarryPath ==
    \A c \in Calls :
        (run[c].pc = "done" /\ run[c].err # NoErr) => run[c].err.path = run[c].path

\* provenance tracking has to be added by the render of call c
MustAddTracking(c) ==
    eopts.SourceAnnotations /\ ~Contains(run[c].kust.BuildMetadata, OriginAnnotations)

\* C26: the origin annotation is stripped exactly when this render added the
\* provenance tracking. If the descriptor already requests it, or source
\* annotations are disabled, the overlay holds no descriptor and every
\* document keeps the origin annotation the builder gave it; if the render
\* added it, the overlay holds the rewritten descriptor at the descriptor's
\* own directory and name, no returned document carries the origin annotation
\* and the source-file annotation is the origin the builder reported.
C26_StripIffAdded ==
    \A c \in Calls : Prepared_(c) =>
        /\ run[c].added = MustAddTracking(c)
        /\ IF MustAddTracking(c)
           THEN /\ run[c].fsKind = "union"
                /\ run[c].overlay[Join(run[c].path, KustName)] =
                      MarshalKust([run[c].kust EXCEPT
                                     !.BuildMetadata = Append(@, OriginAnnotations)])
                /\ Returned(c) =>
                      \A i \in 1..Len(run[c].docs) :
                          /\ run[c].docs[i].ann[AnnOrigin] = Absent
                          /\ run[c].docs[i].ann[AnnSourceFile] = run[c].built.docs[i].ann[AnnOrigin]
           ELSE /\ run[c].overlay[KustFile] = NoEnt
                /\ Returned(c) =>
                      \A i \in 1..Len(run[c].docs) :
                          run[c].docs[i].ann[AnnOrigin] = run[c].built.docs[i].ann[AnnOrigin]

\* source annotations are on and the descriptor already asks for provenance
\* tracking: the documents returned keep the builder's origin annotation
C26_Witness ==
    /\ eopts.SourceAnnotations /\ SourceHasOrigin
    /\ \E c \in Calls :
        /\ Returned(c) /\ ~run[c].added
        /\ run[c].fsKind = "union" /\ run[c].overlay[KustFile] = NoEnt
        /\ Len(run[c].docs) > 0
        /\ run[c].docs[1].ann[AnnOrigin] # Absent
        /\ run[c].docs[1].ann[AnnSourceFile] = run[c].docs[1].ann[AnnOrigin]

\* the plugins of the list up to and including the first that fails
RECURSIVE UpToFirstBad(_)
UpToFirstBad(plugins) ==
    IF plugins = <<>> THEN <<>>
    ELSE IF Head(plugins) = "bad" THEN <<"bad">>
    ELSE <<Head(plugins)>> \o UpToFirstBad(Tail(plugins))

\* the marks the plugins invoked left, in the order they were left
RECURSIVE Marks(_)
Marks(ran) == IF ran = <<>> THEN "" ELSE "+" \o Head(ran) \o Marks(Tail(ran))

\* C27: the registered plugins run only after a successful build and before
\* the conversion, each at most once and in registration order; the first
\* that fails ends the render with an error carrying the render's path, no
\* later plugin runs and no document is returned.
C27_PluginsInOrder ==
    \A c \in Calls :
        /\ (run[c].plugins # <<>> =>
                run[c].pc = "done" /\ run[c].builds = 1 /\ run[c].built.err = OK)
        /\ (run[c].pc = "done" /\ run[c].builds = 1 /\ run[c].built.err = OK) =>
                /\ run[c].plugins = UpToFirstBad(eopts.Plugins)
                /\ IF Contains(eopts.Plugins, "bad")
                   THEN /\ run[c].docs = <<>>
                        /\ run[c].err.kind = "failed to apply kustomize plugin transformer"
                        /\ run[c].err.path = run[c].path
                   ELSE /\ run[c].err.kind # "failed to apply kustomize plugin transformer"
                        /\ run[c].err = NoErr =>
                              /\ Len(run[c].docs) = Len(run[c].built.docs)
                              /\ \A i \in 1..Len(run[c].docs) :
                                    run[c].docs[i].data =
                                        run[c].built.docs[i].data \o Marks(eopts.Plugins)

\* the second of three plugins failed: the first two were invoked, the third
\* was not, and the render returned the error
C27_Witness ==
    /\ eopts.Plugins = <<"a", "bad", "b">>
    /\ run[1].pc = "done" /\ run[1].builds = 1
    /\ run[1].plugins = <<"a", "bad">>
    /\ run[1].err.path = AppDir
    /\ run[1].docs = <<>>

\* C28: under the default key function two specifications that differ in path
\* or in a key or a value of their values get different keys, so a call never
\* hits an entry stored for other values.
C28_DistinctSpecsDistinctKeys ==
    keyFn = "DefaultCacheKey" =>
        \A i, j \in 1..Len(calls) :
            ~SameSpec(calls[i].spec, calls[j].spec) => calls[i].key # calls[j].key

\* C30: what is done through the union is seen by later reads through it:
\* after WriteFile(p, c) returned nil ReadFile(p) gives c, and after
\* RemoveAll(p) returned nil Exists(p) is false, also for a path that only the
\* base holds.
C30_MutationsObservable ==
    phase = "composed" =>
        /\ (lastOp.op = "WriteFile" /\ lastOp.err = OK) =>
                UnionReadFile(base, layer, lastOp.path) = [err |-> OK, data |-> lastOp.data]
        /\ (lastOp.op = "RemoveAll" /\ lastOp.err = OK) =>
                ~UnionExists(base, layer, lastOp.path)


\* the directory the Engine's filesystem resolved the render path of call c
\* to: prepareFilesystem places the synthetic files under it
InjectDir(c) == CleanedAbs(efs, run[c].path, EngEnv(eopts.FileSystem)).dir

\* the directory the composed filesystem of call c resolves the render path to
ComposedRoot(c) ==
    LoaderRoot(eopts.FileSystem, run[c].fsKind, efs, run[c].overlay, run[c].path)

\* C29: whenever injection is needed, the directory under which Run places
\* the synthetic values.yaml and the rewritten descriptor is the directory
\* to which the composed filesystem resolves the render's path, and the
\* builder, reading through the composed filesystem at the render's path,
\* finds every synthetic file there, for absolute, relative and symlinked
\* paths alike.
C29_SyntheticFilesVisible ==
    \A c \in Calls :
        run[c].fsKind = "union" =>
            /\ ComposedRoot(c).err = OK
            /\ ComposedRoot(c).dir = InjectDir(c)
            /\ \A p \in FilePaths :
                    IsFileEnt(run[c].overlay[p]) =>
                        ViewRead(eopts.FileSystem, "union", efs, run[c].overlay,
                                 Join(ComposedRoot(c).dir, Base(p)))
                            = [err |-> OK, data |-> run[c].overlay[p]]

====
